---- MODULE Spec2Model ----
(***************************************************************************)
(* Model of the feature orchestration engine of sdk-bridge:                *)
(*   - dependency_graph.py     : graph builder, validation, level planner  *)
(*   - parallel_coordinator.py : merge of a level's branches into target   *)
(*   - hybrid_loop_agent.py    : per-feature retry state machine and run   *)
(*   - autonomous_agent.py     : session loop with stall detection         *)
(*   - parallel_coordinator.py : execute_level and a run over the levels   *)
(*   - hybrid_loop_agent.py    : the state machines of a level's Workers   *)
(*   - functions of these files called on their own on bounded inputs      *)
(* Each component has its own specification; the variables of the other    *)
(* components stay at their idle values.                                   *)
(***************************************************************************)
EXTENDS Integers, Sequences, FiniteSets, TLC

\* ------------------------------------------------------------------------
\* Bounds of the model
\* ------------------------------------------------------------------------
\* Number of features in the store handed to the graph builder.
NumFeatures == 3
\* Largest total number of declared dependencies over the whole store.
MaxEdges == 3
\* Number of features in the level handed to merge_level_results.
LevelSize == 3
\* Largest number of commits on the target branch before the level.
MaxBase == 2
\* Number of features in the store an agent works through.
NumAgentFeatures == 2
\* Largest priority a feature of that store carries.
MaxPriority == 1
\* HybridLoopAgent(max_inner_loops=..., max_outer_sessions=...) as configured.
MaxInnerLoops == 2
MaxOuterSessions == 2
\* How many times the agent process may be killed and started again.
MaxCrashes == 2
\* AutonomousAgent(max_iterations=...) as configured.
MaxIterations == 4
\* ParallelCoordinator(max_parallel_workers=...) as configured.
MaxParallelWorkers == 2
\* Number of levels of the plan a run works through, and the largest number
\* of features in a level of it.
NumLevels == 2
RunLevelSize == 2
\* Largest number of features in flight at once on one project, one Worker
\* each.
NumInFlight == 2

VARIABLES
  \* ---- dependency_graph.py ----
  features,     \* the feature store: list of [id, dependencies, passes]
  nodes,        \* DependencyGraph.nodes: id -> [dependencies, dependents, passes]
  nodeOrder,    \* insertion order of the keys of DependencyGraph.nodes
  edges,        \* DependencyGraph.edges: list of <<from_id, to_id>>
  gpc,          \* position of the build / validate / plan pipeline
  validation,   \* outcome of validate_dependencies
  levels,       \* outcome of topological_sort (a list of levels)
  sortRuns,     \* how many times topological_sort ran on the graph

  reordered,    \* outcome of reorder_by_topology
  \* ---- parallel_coordinator.py: merge_level_results ----
  target,       \* first-parent history of the target branch, oldest first
  preLevel,     \* target as it was before the level's first merge
  branches,     \* features whose isolation branch exists
  results,      \* execute_level's result: feature id -> success
  successful_features,  \* the merge candidates, in the order of results
  mpc,          \* position inside merge_level_results
  mi,           \* index of the next candidate to merge
  merge_conflicts,      \* conflicting paths collected so far
  outcome,      \* what merge_branch did for each feature
  mergeResult,  \* the MergeResult returned by merge_level_results
  test_suite,   \* what the integration test suite answers
  git_running,  \* "git merge --abort" processes started and not yet exited
  overlap,      \* a git operation started while such a process was running
  rolled_back,  \* reset_hard was called by merge_level_results
  \* ---- hybrid_loop_agent.py ----
  hstore,       \* feature_list.json on disk
  hfeatures,    \* the feature list run() holds in memory
  checkpoint,   \* checkpoint-v2.json on disk
  hsignal,      \* sdk_complete.json on disk
  hpc,          \* position of run() / execute_feature()
  hcur,         \* index of the feature execute_feature works on (0: none)
  session_num,  \* outer loop variable of execute_feature
  attempt,      \* inner loop variable of execute_feature
  result_success,   \* result.success of the executor call of this attempt
  hvalidation,  \* the ValidationResult of this attempt
  ef_success,   \* success of the ExecutionResult execute_feature returned
  resume,       \* the checkpoint that was on disk when the process started
  invoked,      \* executor invocations since the process started (0, 1, many)
  failedThisRun,    \* features execute_feature reported failed in this run
  hfails,       \* consecutive failed feature executions in this run (up to 3)
  crashes,      \* how many times the process was killed
  hwrite_failed,    \* a write of the checkpoint or of the feature list raised
  hpartial,     \* checkpoint-v2.json was opened for writing and is not yet written out
  ef_calls,     \* executor calls made by this call of execute_feature
  \* ---- autonomous_agent.py ----
  astore,       \* feature_list.json on disk
  areadable,    \* whether feature_list.json exists and parses
  apartial,     \* feature_list.json was opened for writing and is not yet written out
  acheckpoint,  \* sdk-checkpoint.json on disk
  asignal,      \* sdk_complete.json on disk
  apc,          \* position of run()
  ai,           \* loop variable i of run()
  current_session,      \* self.current_session
  features_completed,   \* self.features_completed
  consecutive_failures, \* self.consecutive_failures
  acur,         \* index of the feature of this session (0: none)
  aattempt,     \* loop variable of execute_session_with_retry
  asuccess,     \* what execute_session_with_retry returned
  aresume,      \* the checkpoint that was on disk when the process started
  last_started, \* number of the session started last, by this process or an earlier one (0: none)
  afailed,      \* features whose session failed in this run
  aretried,     \* whether the executor ran for a feature already in afailed
  afails,       \* consecutive failed sessions in this run (up to 3)
  asignals,     \* completion signals written by this run (0, 1, many)
  acrashes,     \* how many times the process was killed
  alast,        \* what the last call of execute_session did ("none": no call yet)
  credentials,  \* whether CLAUDE_CODE_OAUTH_TOKEN or ANTHROPIC_API_KEY is set
  checkpoint_faulty,    \* whether a write of sdk-checkpoint.json can fail
  save_failed,  \* CheckpointManager.save has returned False
  \* ---- parallel_coordinator.py: execute_level ----
  lvl,          \* index of the level being executed (0: none)
  feature_ids,  \* the level handed to execute_level
  has_description,  \* feature id -> whether its record has a description
  HEAD,         \* the branch checked out: 0 for base/target, f for f's branch
  branch_from,  \* feature id -> how its isolation branch came to be
  branch_base,  \* feature id -> history its isolation branch started from
  active_workers,   \* WorkerSessionManager.active_workers: id -> record
  completed_workers,    \* WorkerSessionManager.completed_workers
  workers,      \* the local list of execute_level
  wpc,          \* position of each worker task
  epc,          \* position of execute_level
  level_results,    \* the dict execute_level returns
  prereqs,      \* merge commits the level's features depend on
  \* ---- dependency_graph.py: the pipeline run once more ----
  replan,       \* how the plan was last recomputed ("none": first plan)
  marked,       \* the feature marked passes=true before the re-plan (0: none)
  prevLevels,   \* the levels of the plan before
  prevValidation,   \* the validation outcome of the run before
  dupInserts,   \* insertions of an edge that was already present (0, 1)
  graphBefore,  \* the graph before the last such insertion
  \* ---- hybrid_loop_agent.py: one state machine per Worker of a level ----
  in_flight,    \* feature id -> the execute_feature of its Worker
  project_checkpoint,   \* .claude/checkpoint-v2.json of the project
  \* ---- functions called on their own ----
  arg,          \* the argument the function is called on
  ret           \* what it returned (<<>>: not called yet)

gvars == <<features, nodes, nodeOrder, edges, gpc, validation, levels, sortRuns,
           reordered>>
mvars == <<target, preLevel, branches, results, successful_features, mpc, mi,
           merge_conflicts, outcome, mergeResult, test_suite, git_running, overlap,
           rolled_back>>
hvars == <<hstore, hfeatures, checkpoint, hsignal, hpc, hcur, session_num, attempt,
           result_success, hvalidation, ef_success, resume, invoked, failedThisRun,
           hfails, crashes, hwrite_failed, hpartial, ef_calls>>
avars == <<astore, areadable, apartial, acheckpoint, asignal, apc, ai, current_session,
           features_completed, consecutive_failures, acur, aattempt, asuccess,
           aresume, last_started, afailed, aretried, afails, asignals, acrashes, alast,
           credentials, checkpoint_faulty, save_failed>>
lvars == <<lvl, feature_ids, has_description, HEAD, branch_from, branch_base,
           active_workers, completed_workers, workers, wpc, epc, level_results,
           prereqs>>
pvars == <<replan, marked, prevLevels, prevValidation, dupInserts,
           graphBefore>>
kvars == <<in_flight, project_checkpoint>>
fvars == <<arg, ret>>
vars == <<gvars, mvars, hvars, avars, lvars, pvars, kvars, fvars>>
\* What an action of one component leaves alone: the other components.
notGraph == <<mvars, hvars, avars, lvars, pvars, kvars, fvars>>
notMerge == <<gvars, hvars, avars, lvars, pvars, kvars, fvars>>
notHybrid == <<gvars, mvars, avars, lvars, pvars, kvars, fvars>>
notAuto == <<gvars, mvars, hvars, lvars, pvars, kvars, fvars>>
notLevel == <<gvars, mvars, hvars, avars, pvars, kvars, fvars>>
notWorkers == <<gvars, mvars, hvars, avars, lvars, pvars, fvars>>
notCall == <<gvars, mvars, hvars, avars, lvars, pvars, kvars>>
\* What a step that recomputes the plan leaves alone.
notReplan == <<mvars, hvars, avars, lvars, kvars, fvars>>
\* What a step of the run over the levels leaves alone.
notRun == <<gvars, hvars, avars, pvars, kvars, fvars>>

\* ------------------------------------------------------------------------
\* Helpers on sequences
\* ------------------------------------------------------------------------
Range(s) == {s[i] : i \in 1..Len(s)}

IndexOf(s, x) == CHOOSE i \in 1..Len(s) : s[i] = x /\ \A j \in 1..(i - 1) : s[j] # x

\* All listings of the set S as a list without repetition.
Orderings(S) ==
  {s \in [1..Cardinality(S) -> S] : \A i, j \in 1..Cardinality(S) : i # j => s[i] # s[j]}

\* ------------------------------------------------------------------------
\* dependency_graph.py
\* ------------------------------------------------------------------------
\* Feature ids are labels; the store lists feature i at position i.  A
\* dependency on a feature listed later is drawn by Init like any other, so
\* every listing order of every dependency relation occurs up to renaming.
FeatureIds == 1..NumFeatures
\* An id that no feature of the store carries (a dangling reference).
MissingId == NumFeatures + 1
DepIds == FeatureIds \cup {MissingId}

\* The subsets of S with at most k members.
RECURSIVE SubsetsUpTo(_, _)
SubsetsUpTo(S, k) ==
  IF k = 0 THEN {{}}
  ELSE LET P == SubsetsUpTo(S, k - 1) IN P \cup {E \cup {e} : E \in P, e \in S}

EdgeSets == SubsetsUpTo(FeatureIds \X DepIds, MaxEdges)

RECURSIVE StoresOf(_, _)
StoresOf(E, n) ==
  IF n = 0 THEN {<<>>}
  ELSE {Append(l, [id |-> n, dependencies |-> d, passes |-> FALSE]) :
          l \in StoresOf(E, n - 1),
          d \in Orderings({x \in DepIds : <<n, x>> \in E})}

FeatureStores == UNION {StoresOf(E, NumFeatures) : E \in EdgeSets}

EmptyGraph == [nodes |-> <<>>, order |-> <<>>, edges |-> <<>>]

\* add_edge as it would be without the test for an edge already there.
add_edge_unchecked(g, from_id, to_id) ==
  LET n1 == IF from_id \in DOMAIN g.nodes
            THEN [g.nodes EXCEPT ![from_id].dependents = Append(@, to_id)]
            ELSE g.nodes
      n2 == IF to_id \in DOMAIN n1 /\ from_id \notin Range(n1[to_id].dependencies)
            THEN [n1 EXCEPT ![to_id].dependencies = Append(@, from_id)]
            ELSE n1
  IN [g EXCEPT !.nodes = n2, !.edges = Append(g.edges, <<from_id, to_id>>)]

\* DependencyGraph.add_edge
add_edge(g, from_id, to_id) ==
  IF <<from_id, to_id>> \in Range(g.edges) THEN g
  ELSE
    LET n1 == IF from_id \in DOMAIN g.nodes
              THEN [g.nodes EXCEPT ![from_id].dependents = Append(@, to_id)]
              ELSE g.nodes
        n2 == IF to_id \in DOMAIN n1 /\ from_id \notin Range(n1[to_id].dependencies)
              THEN [n1 EXCEPT ![to_id].dependencies = Append(@, from_id)]
              ELSE n1
    IN [g EXCEPT !.nodes = n2, !.edges = Append(g.edges, <<from_id, to_id>>)]

RECURSIVE add_edges(_, _, _, _)
add_edges(g, deps, i, to_id) ==
  IF i > Len(deps) THEN g
  ELSE add_edges(add_edge(g, deps[i], to_id), deps, i + 1, to_id)

\* DependencyGraph.add_feature
add_feature(g, feature) ==
  LET node == [dependencies |-> feature.dependencies, dependents |-> <<>>,
               passes |-> feature.passes]
      ids == DOMAIN g.nodes \cup {feature.id}
      g1 == [g EXCEPT
               !.nodes = [k \in ids |-> IF k = feature.id THEN node ELSE g.nodes[k]],
               !.order = IF feature.id \in DOMAIN g.nodes THEN @ ELSE Append(@, feature.id)]
  IN add_edges(g1, feature.dependencies, 1, feature.id)

RECURSIVE build_from(_, _, _)
build_from(g, fs, i) ==
  IF i > Len(fs) THEN g ELSE build_from(add_feature(g, fs[i]), fs, i + 1)

\* build_graph_from_feature_list_data
build_graph_from_feature_list_data(fs) == build_from(EmptyGraph, fs, 1)

\* In-degree computed by topological_sort from the edge list.
InDegree(g) ==
  [n \in DOMAIN g.nodes |->
     Cardinality({i \in 1..Len(g.edges) : g.edges[i][2] = n})]

\* One round of the peel of topological_sort: the level, then the in-degrees
\* lowered through the dependents lists of the level's nodes.
Decremented(g, in_degree, current_level) ==
  [n \in DOMAIN in_degree |->
     in_degree[n] -
       Cardinality({p \in current_level \X (1..Cardinality(DOMAIN g.nodes)) :
                      /\ p[2] <= Len(g.nodes[p[1]].dependents)
                      /\ g.nodes[p[1]].dependents[p[2]] = n})]

RECURSIVE Peel(_, _, _, _)
Peel(g, in_degree, remaining, acc) ==
  IF remaining = {} THEN acc
  ELSE
    LET zero == {n \in remaining : in_degree[n] = 0}
        \* "Cycle or isolated nodes detected": the remainder is one last level
        current_level == IF zero = {} THEN remaining ELSE zero
    IN Peel(g, Decremented(g, in_degree, current_level),
            remaining \ current_level, Append(acc, current_level))

\* DependencyGraph.topological_sort.  A level is the set of its members: the
\* code lists them in the iteration order of a Python set.
topological_sort(g) == Peel(g, InDegree(g), DOMAIN g.nodes, <<>>)

\* _detect_cycles.  st = [visited, rec_stack, cycles, raised]; raised is the
\* ValueError of path.index(dep) when dep is not on the path.
RECURSIVE dfs(_, _, _, _)
RECURSIVE dfs_deps(_, _, _, _, _)
dfs(g, node_id, path, st) ==
  LET p == Append(path, node_id)
      st1 == [st EXCEPT !.visited = @ \cup {node_id}, !.rec_stack = @ \cup {node_id}]
  IN IF node_id \notin DOMAIN g.nodes THEN st1
     ELSE LET st2 == dfs_deps(g, node_id, p, 1, st1)
          IN IF st2.raised THEN st2 ELSE [st2 EXCEPT !.rec_stack = @ \ {node_id}]

dfs_deps(g, node_id, p, i, st) ==
  IF st.raised \/ i > Len(g.nodes[node_id].dependencies) THEN st
  ELSE
    LET dep == g.nodes[node_id].dependencies[i]
        st1 == IF dep \notin st.visited THEN dfs(g, dep, p, st)
               ELSE IF dep \in st.rec_stack
                    THEN IF dep \in Range(p)
                         THEN [st EXCEPT !.cycles =
                                 Append(@, SubSeq(p, IndexOf(p, dep), Len(p)) \o <<dep>>)]
                         ELSE [st EXCEPT !.raised = TRUE]
                    ELSE st
    IN dfs_deps(g, node_id, p, i + 1, st1)

RECURSIVE dfs_roots(_, _, _)
dfs_roots(g, i, st) ==
  IF st.raised \/ i > Len(g.order) THEN st
  ELSE dfs_roots(g, i + 1,
                 IF g.order[i] \notin st.visited THEN dfs(g, g.order[i], <<>>, st) ELSE st)

_detect_cycles(g) ==
  dfs_roots(g, 1, [visited |-> {}, rec_stack |-> {}, cycles |-> <<>>, raised |-> FALSE])

Max(S) == CHOOSE x \in S : \A y \in S : y <= x

\* _calculate_depth
RECURSIVE _calculate_depth(_, _, _)
_calculate_depth(g, node_id, visited) ==
  IF node_id \in visited THEN 0
  ELSE IF node_id \notin DOMAIN g.nodes \/ g.nodes[node_id].dependencies = <<>> THEN 0
  ELSE Max({_calculate_depth(g, d, visited \cup {node_id}) :
              d \in Range(g.nodes[node_id].dependencies)}) + 1

\* Depth beyond which validate_dependencies warns of a deep chain.
DepthThreshold == 5

\* The errors validate_dependencies appends while it walks the dependencies.
RefErrors(g) ==
  {[kind |-> "self", feature |-> n, dep |-> n] :
      n \in {k \in DOMAIN g.nodes : k \in Range(g.nodes[k].dependencies)}}
  \cup
  {[kind |-> "missing", feature |-> p[1], dep |-> p[2]] :
      p \in {q \in (DOMAIN g.nodes) \X DepIds :
               q[2] \in Range(g.nodes[q[1]].dependencies) /\ q[2] \notin DOMAIN g.nodes}}

NoValidation ==
  [done |-> FALSE, raised |-> FALSE, is_valid |-> FALSE,
   errors |-> {}, cycles |-> <<>>, warnings |-> {}, sorted |-> FALSE]

\* validate_dependencies.  raised: the call ended with the ValueError of
\* _detect_cycles instead of a ValidationResult.  sorted: it ran
\* topological_sort (only when no cycle was found).
validate_dependencies(g) ==
  LET c == _detect_cycles(g)
      max_depth == Max({0} \cup {_calculate_depth(g, n, {}) : n \in DOMAIN g.nodes})
  IN IF c.raised
     THEN [NoValidation EXCEPT !.done = TRUE, !.raised = TRUE]
     ELSE [done |-> TRUE, raised |-> FALSE,
           is_valid |-> RefErrors(g) = {} /\ c.cycles = <<>>,
           errors |-> RefErrors(g),
           cycles |-> c.cycles,
           warnings |-> IF max_depth > DepthThreshold THEN {"deep_chain"} ELSE {},
           sorted |-> c.cycles = <<>>]

\* All flattenings of a list of levels into one list of ids.
RECURSIVE Flattenings(_, _)
Flattenings(ls, i) ==
  IF i > Len(ls) THEN {<<>>}
  ELSE {a \o b : a \in Orderings(ls[i]), b \in Flattenings(ls, i + 1)}

NotReordered == [done |-> FALSE, raised |-> FALSE, order |-> <<>>]

\* The graph object as the operators above take it.
Graph == [nodes |-> nodes, order |-> nodeOrder, edges |-> edges]

GraphStart ==
  /\ features \in FeatureStores
  /\ nodes = <<>>
  /\ nodeOrder = <<>>
  /\ edges = <<>>
  /\ gpc = "build"
  /\ validation = NoValidation
  /\ levels = <<>>
  /\ sortRuns = 0
  /\ reordered = NotReordered
  /\ replan = "none"
  /\ marked = 0
  /\ prevLevels = <<>>
  /\ prevValidation = NoValidation
  /\ dupInserts = 0
  /\ graphBefore = EmptyGraph

\* One iteration of the loop of build_graph_from_feature_list_data.
AddFeature ==
  /\ gpc = "build"
  /\ Len(nodeOrder) < Len(features)
  /\ LET g == add_feature(Graph, features[Len(nodeOrder) + 1])
     IN /\ nodes' = g.nodes
        /\ nodeOrder' = g.order
        /\ edges' = g.edges
        /\ gpc' = IF Len(g.order) = Len(features) THEN "built" ELSE "build"
  /\ UNCHANGED <<features, validation, levels, sortRuns, reordered, notGraph>>

\* validate_dependencies on the built graph.
ValidateDependencies ==
  /\ gpc = "built"
  /\ validation' = validate_dependencies(Graph)
  /\ sortRuns' = sortRuns + (IF validation'.sorted THEN 1 ELSE 0)
  /\ gpc' = "validated"
  /\ UNCHANGED <<features, nodes, nodeOrder, edges, levels, reordered, notGraph>>

\* The planner called on the built graph (create_execution_plan).
TopologicalSort ==
  /\ gpc \in {"built", "validated"}
  /\ levels' = topological_sort(Graph)
  /\ sortRuns' = sortRuns + 1
  /\ gpc' = "planned"
  /\ UNCHANGED <<features, nodes, nodeOrder, edges, validation, reordered, notGraph>>

\* reorder_by_topology on the store: build, validate, then sort and flatten.
ReorderByTopology ==
  /\ gpc = "build"
  /\ nodeOrder = <<>>
  /\ LET g == build_graph_from_feature_list_data(features)
         v == validate_dependencies(g)
     IN /\ nodes' = g.nodes
        /\ nodeOrder' = g.order
        /\ edges' = g.edges
        /\ validation' = v
        /\ IF v.raised \/ ~v.is_valid
           THEN /\ reordered' = [done |-> TRUE, raised |-> TRUE, order |-> <<>>]
                /\ levels' = levels
                /\ sortRuns' = sortRuns + (IF v.sorted THEN 1 ELSE 0)
           ELSE /\ levels' = topological_sort(g)
                /\ \E o \in Flattenings(topological_sort(g), 1) :
                     reordered' = [done |-> TRUE, raised |-> FALSE, order |-> o]
                /\ sortRuns' = sortRuns + 2
  /\ gpc' = "reordered"
  /\ UNCHANGED <<features, notGraph>>

GraphNext ==
  \/ AddFeature
  \/ ValidateDependencies
  \/ TopologicalSort
  \/ ReorderByTopology


\* The graph component when a specification does not exercise it.
GraphIdle ==
  /\ features = <<>>
  /\ nodes = <<>>
  /\ nodeOrder = <<>>
  /\ edges = <<>>
  /\ gpc = "idle"
  /\ validation = NoValidation
  /\ levels = <<>>
  /\ sortRuns = 0
  /\ reordered = NotReordered
  /\ replan = "none"
  /\ marked = 0
  /\ prevLevels = <<>>
  /\ prevValidation = NoValidation
  /\ dupInserts = 0
  /\ graphBefore = EmptyGraph


\* ------------------------------------------------------------------------
\* dependency_graph.py: the pipeline run once more.  A behaviour recomputes
\* the plan once, in one of three ways, and compares it with the plan before.
\* ------------------------------------------------------------------------
\* A fresh DependencyGraph() for the next build.
GraphCleared ==
  /\ nodes' = <<>>
  /\ nodeOrder' = <<>>
  /\ edges' = <<>>
  /\ gpc' = "build"
  /\ validation' = NoValidation
  /\ levels' = <<>>
  /\ dupInserts' = 0
  /\ graphBefore' = EmptyGraph

\* The outcome of the run so far is kept for comparison.
PlanRemembered ==
  /\ prevLevels' = levels
  /\ prevValidation' = validation

\* The engine sets passes = True on a feature of the store and saves it; the
\* pipeline then starts again from the store.
MarkPasses ==
  /\ gpc = "planned"
  /\ replan = "none"
  /\ \E i \in 1..Len(features) :
       /\ ~features[i].passes
       /\ features' = [features EXCEPT ![i].passes = TRUE]
       /\ marked' = features[i].id
  /\ replan' = "marked"
  /\ PlanRemembered
  /\ GraphCleared
  /\ UNCHANGED <<sortRuns, reordered, notReplan>>

\* The pipeline starts again from the store as it is.
BuildAgain ==
  /\ gpc = "planned"
  /\ replan = "none"
  /\ replan' = "same_store"
  /\ marked' = 0
  /\ PlanRemembered
  /\ GraphCleared
  /\ UNCHANGED <<features, sortRuns, reordered, notReplan>>

\* create_execution_plan called once more on the graph that was planned.
PlanAgain ==
  /\ gpc = "planned"
  /\ replan = "none"
  /\ replan' = "same_graph"
  /\ marked' = 0
  /\ PlanRemembered
  /\ levels' = topological_sort(Graph)
  /\ sortRuns' = sortRuns + 1
  /\ UNCHANGED <<features, nodes, nodeOrder, edges, gpc, validation, reordered,
                 dupInserts, graphBefore, notReplan>>

\* detect_implicit_dependencies, auth rule: add_edge(auth_id, node_id) is
\* called whether or not the feature declares that dependency already; here
\* for an edge the graph holds.
AddPresentEdge ==
  /\ gpc = "built"
  /\ dupInserts = 0
  /\ \E k \in 1..Len(edges) :
       LET g == add_edge(Graph, edges[k][1], edges[k][2])
       IN /\ nodes' = g.nodes
          /\ nodeOrder' = g.order
          /\ edges' = g.edges
  /\ graphBefore' = Graph
  /\ dupInserts' = dupInserts + 1
  /\ UNCHANGED <<features, gpc, validation, levels, sortRuns, reordered, replan,
                 marked, prevLevels, prevValidation, notReplan>>

\* The pipeline, then once more after a feature was marked done.
ReplanNext ==
  \/ AddFeature
  \/ ValidateDependencies
  \/ TopologicalSort
  \/ MarkPasses

\* The pipeline, then once more with nothing changed in the store.
RerunNext ==
  \/ AddFeature
  \/ AddPresentEdge
  \/ ValidateDependencies
  \/ TopologicalSort
  \/ BuildAgain
  \/ PlanAgain

\* ------------------------------------------------------------------------
\* dependency_graph.py: detect_implicit_dependencies
\* ------------------------------------------------------------------------
\* What the keyword tests on a description and its tags decide for a feature:
\*   auth_setup    - an auth keyword and a setup keyword: in auth_features
\*   needs_auth    - "requires auth", "protected" or "authenticated"
\*   db_setup      - "create table", "database setup", "schema", "migration"
\*   uses_database - "database", "query", "insert", "update" or "delete"
\* A description can hold the keywords of any number of them.
Categories == {"auth_setup", "needs_auth", "db_setup", "uses_database"}

CategoryAssignments == [FeatureIds -> SUBSET Categories]

\* The nodes of a category in the iteration order of self.nodes.
NodesOf(g, cats, c) == SelectSeq(g.order, LAMBDA n : c \in cats[n])

RECURSIVE add_implicit(_, _, _, _, _)
\* The inner loops of detect_implicit_dependencies for node_id over from_ids:
\* skip the node itself and, for the database rule (check_deps), an id
\* already among node.dependencies; add_edge otherwise.
add_implicit(g, from_ids, i, node_id, check_deps) ==
  IF i > Len(from_ids) THEN g
  ELSE LET from_id == from_ids[i]
           skip == \/ from_id = node_id
                   \/ check_deps /\ from_id \in Range(g.nodes[node_id].dependencies)
       IN add_implicit(IF skip THEN g ELSE add_edge(g, from_id, node_id),
                       from_ids, i + 1, node_id, check_deps)

RECURSIVE implicit_from(_, _, _, _, _)
\* The second loop of detect_implicit_dependencies from the i-th node on.
implicit_from(g, cats, auth_features, db_setup_features, i) ==
  IF i > Len(g.order) THEN g
  ELSE LET node_id == g.order[i]
           g1 == IF "needs_auth" \in cats[node_id]
                 THEN add_implicit(g, auth_features, 1, node_id, FALSE)
                 ELSE g
           g2 == IF "uses_database" \in cats[node_id]
                 THEN add_implicit(g1, db_setup_features, 1, node_id, TRUE)
                 ELSE g1
       IN implicit_from(g2, cats, auth_features, db_setup_features, i + 1)

\* DependencyGraph.detect_implicit_dependencies
detect_implicit_dependencies(g, cats) ==
  implicit_from(g, cats, NodesOf(g, cats, "auth_setup"), NodesOf(g, cats, "db_setup"), 1)

\* build_graph_from_feature_list after its add_feature loop: the features'
\* descriptions fall into categories, detect_implicit_dependencies runs.
DetectImplicitDependencies ==
  /\ gpc = "built"
  /\ \E cats \in CategoryAssignments :
       /\ arg' = cats
       /\ LET g == detect_implicit_dependencies(Graph, cats)
          IN /\ nodes' = g.nodes
             /\ nodeOrder' = g.order
             /\ edges' = g.edges
  /\ gpc' = "implicit"
  /\ UNCHANGED <<features, validation, levels, sortRuns, reordered>>
  /\ UNCHANGED <<mvars, hvars, avars, lvars, pvars, kvars, ret>>

ImplicitNext ==
  \/ AddFeature
  \/ DetectImplicitDependencies

\* ------------------------------------------------------------------------
\* parallel_coordinator.py: GitManager and merge_level_results
\* ------------------------------------------------------------------------
LevelFeatures == 1..LevelSize

\* A commit of the target branch: one that was there before the level, or
\* the merge commit of a feature's isolation branch.
BaseCommit(k) == <<"base", k>>
MergeCommit(f) == <<"merge", f>>

\* What one call of GitManager.merge_branch can do:
\*   clean    - git merge --no-ff made a merge commit          (success)
\*   uptodate - the branch held nothing new, exit status 0     (success)
\*   conflict - exit status # 0, conflicting paths listed, merge aborted
\*   failed   - exit status # 0, no conflicting path listed, merge aborted
\*   error    - the call raised, MergeResult(success=False, conflicts=[])
MergeOutcomes == {"clean", "uptodate", "conflict", "failed", "error"}

\* GitManager.merge_branch: the MergeResult it returns for an outcome.
merge_branch_result(f, o) ==
  [success |-> o \in {"clean", "uptodate"},
   conflicts |-> IF o = "conflict" THEN <<f>> ELSE <<>>,
   requires_approval |-> o \in {"conflict", "failed"}]

\* GitManager.merge_branch: the target branch after the call.
merge_branch_target(t, f, o) == IF o = "clean" THEN Append(t, MergeCommit(f)) ELSE t

\* GitManager.reset_hard("HEAD~n") on the target branch: git moves the branch
\* to its n-th first-parent ancestor, and fails when there is none.
reset_hard(t, n) == IF Len(t) > n THEN SubSeq(t, 1, Len(t) - n) ELSE t

\* ParallelCoordinator._run_integration_tests
_run_integration_tests == TRUE

\* The candidate list as it would be without the "if success" filter.
RECURSIVE Successful_unfiltered(_, _)
Successful_unfiltered(res, i) ==
  IF i > Len(res) THEN <<>>
  ELSE <<i>> \o Successful_unfiltered(res, i + 1)

\* [fid for fid, success in results.items() if success]
RECURSIVE Successful(_, _)
Successful(res, i) ==
  IF i > Len(res) THEN <<>>
  ELSE (IF res[i] THEN <<i>> ELSE <<>>) \o Successful(res, i + 1)

NoMergeResult ==
  [done |-> FALSE, success |-> FALSE, requires_approval |-> FALSE,
   reason |-> "", conflicts |-> <<>>]

\* The histories the target branch can have before a level.
TargetHistories == {[k \in 1..n |-> BaseCommit(k)] : n \in 1..MaxBase}

\* The level merge_level_results is called on: every result vector, every
\* isolation branch in place, no git process left running.
MergeInputs ==
  /\ target \in TargetHistories
  /\ preLevel = target
  /\ branches = LevelFeatures
  /\ results \in [LevelFeatures -> BOOLEAN]
  /\ successful_features = <<>>
  /\ mpc = "start"
  /\ mi = 1
  /\ merge_conflicts = <<>>
  /\ outcome = [f \in LevelFeatures |-> "none"]
  /\ mergeResult = NoMergeResult
  /\ git_running = 0
  /\ overlap = FALSE
  /\ rolled_back = FALSE

\* The integration check as the code has it: the placeholder passes.
MergeStart == MergeInputs /\ test_suite = _run_integration_tests

\* The integration check as the external collaborator of the spec: it
\* passes or fails.
IntegrationCheckResults == BOOLEAN
MergeCheckedStart == MergeInputs /\ test_suite \in IntegrationCheckResults

MergeIdle ==
  /\ target = <<>>
  /\ preLevel = <<>>
  /\ branches = {}
  /\ results = <<>>
  /\ successful_features = <<>>
  /\ mpc = "idle"
  /\ mi = 1
  /\ merge_conflicts = <<>>
  /\ outcome = <<>>
  /\ mergeResult = NoMergeResult
  /\ test_suite = _run_integration_tests
  /\ git_running = 0
  /\ overlap = FALSE
  /\ rolled_back = FALSE

\* merge_level_results up to the merge loop: pick the candidates, return at
\* once when there is none, else switch to the target branch.
BeginMerge ==
  /\ mpc = "start"
  /\ successful_features' = Successful(results, 1)
  /\ IF successful_features' = <<>>
     THEN /\ mergeResult' = [NoMergeResult EXCEPT !.done = TRUE,
                               !.reason = "No successful features to merge"]
          /\ mpc' = "done"
     ELSE /\ mergeResult' = mergeResult
          /\ mpc' = "merge"
  /\ UNCHANGED <<target, preLevel, branches, results, mi, merge_conflicts, outcome,
                 test_suite, git_running, overlap, rolled_back, notMerge>>

\* One iteration of the merge loop: merge_branch for the next candidate.
\* A branch that does not exist cannot be merged; on a non-zero exit
\* "git merge --abort" is started and not waited for.
MergeBranch ==
  /\ mpc = "merge"
  /\ mi <= Len(successful_features)
  /\ \E o \in MergeOutcomes :
       LET f == successful_features[mi]
           r == merge_branch_result(f, o)
       IN /\ f \notin branches => o \in {"failed", "error"}
          /\ git_running' = git_running + (IF o \in {"conflict", "failed"} THEN 1 ELSE 0)
          /\ target' = merge_branch_target(target, f, o)
          /\ outcome' = [outcome EXCEPT ![f] = o]
          /\ merge_conflicts' = IF ~r.success THEN merge_conflicts \o r.conflicts
                                ELSE merge_conflicts
  /\ mi' = mi + 1
  /\ overlap' = (overlap \/ git_running > 0)
  /\ UNCHANGED <<preLevel, branches, results, successful_features, mpc, mergeResult,
                 test_suite, rolled_back, notMerge>>

\* FinishMerge as it would be with requires_approval left at its default in
\* the result of a conflict rollback.
FinishMerge_without_approval ==
  /\ mpc = "merge"
  /\ mi > Len(successful_features)
  /\ IF merge_conflicts # <<>>
     THEN /\ target' = reset_hard(target, Len(successful_features))
          /\ mergeResult' = [done |-> TRUE, success |-> FALSE,
                             requires_approval |-> FALSE,
                             reason |-> "Merge conflicts detected, rolled back",
                             conflicts |-> merge_conflicts]
          /\ branches' = branches
     ELSE IF ~test_suite
     THEN /\ target' = reset_hard(target, Len(successful_features))
          /\ mergeResult' = [done |-> TRUE, success |-> FALSE,
                             requires_approval |-> TRUE,
                             reason |-> "Integration tests failed, rolled back",
                             conflicts |-> <<>>]
          /\ branches' = branches
     ELSE /\ target' = target
          /\ mergeResult' = [done |-> TRUE, success |-> TRUE,
                             requires_approval |-> FALSE,
                             reason |-> "All merges clean, tests passing",
                             conflicts |-> <<>>]
          /\ branches' = branches \ Range(successful_features)
  /\ rolled_back' = (merge_conflicts # <<>> \/ ~test_suite)
  /\ mpc' = "done"
  /\ UNCHANGED <<preLevel, results, successful_features, mi, merge_conflicts, outcome,
                 test_suite, git_running, overlap, notMerge>>

\* merge_level_results after the merge loop: roll back on recorded conflicts,
\* else run the integration tests, roll back when they fail, else delete the
\* isolation branches and report success.
FinishMerge ==
  /\ mpc = "merge"
  /\ mi > Len(successful_features)
  /\ IF merge_conflicts # <<>>
     THEN /\ target' = reset_hard(target, Len(successful_features))
          /\ mergeResult' = [done |-> TRUE, success |-> FALSE,
                             requires_approval |-> TRUE,
                             reason |-> "Merge conflicts detected, rolled back",
                             conflicts |-> merge_conflicts]
          /\ branches' = branches
     ELSE IF ~test_suite
     THEN /\ target' = reset_hard(target, Len(successful_features))
          /\ mergeResult' = [done |-> TRUE, success |-> FALSE,
                             requires_approval |-> TRUE,
                             reason |-> "Integration tests failed, rolled back",
                             conflicts |-> <<>>]
          /\ branches' = branches
     ELSE /\ target' = target
          /\ mergeResult' = [done |-> TRUE, success |-> TRUE,
                             requires_approval |-> FALSE,
                             reason |-> "All merges clean, tests passing",
                             conflicts |-> <<>>]
          /\ branches' = branches \ Range(successful_features)
  /\ rolled_back' = (merge_conflicts # <<>> \/ ~test_suite)
  /\ mpc' = "done"
  /\ UNCHANGED <<preLevel, results, successful_features, mi, merge_conflicts, outcome,
                 test_suite, git_running, overlap, notMerge>>

\* A "git merge --abort" that merge_branch started comes to its end.  With
\* no merge in progress any more it changes nothing.
MergeAbortExits ==
  /\ git_running > 0
  /\ git_running' = git_running - 1
  /\ UNCHANGED <<target, preLevel, branches, results, successful_features, mpc, mi,
                 merge_conflicts, outcome, mergeResult, test_suite, overlap,
                 rolled_back, notMerge>>

MergeNext ==
  \/ BeginMerge
  \/ MergeBranch
  \/ FinishMerge
  \/ MergeAbortExits

\* ------------------------------------------------------------------------
\* hybrid_loop_agent.py: HybridLoopAgent
\* ------------------------------------------------------------------------
AgentFeatures == 1..NumAgentFeatures

\* A feature record of feature_list.json: has_priority tells whether the
\* record carries a "priority" key at all.
AgentFeatureRecs ==
  {[passes |-> p, has_priority |-> hp, priority |-> pr] :
     p \in BOOLEAN, hp \in BOOLEAN, pr \in 0..MaxPriority}

\* The stores an agent can be started on (a record without the key has no
\* priority value to vary).
AgentStores ==
  {s \in [AgentFeatures -> AgentFeatureRecs] :
     \A i \in AgentFeatures : ~s[i].has_priority => s[i].priority = 0}

\* f.get("priority", 0)
PriorityOf(f) == IF f.has_priority THEN f.priority ELSE 0

Pending(fs) == {i \in DOMAIN fs : ~fs[i].passes}

Min(S) == CHOOSE x \in S : \A y \in S : x <= y

\* The pending features in store order, by index.
PendingList(fs) == SelectSeq([i \in 1..Len(fs) |-> i], LAMBDA i : ~fs[i].passes)

\* The position a sort that is not stable under reverse=True would choose:
\* in front of the elements of equal priority.
hybrid_sort_position_unstable(fs, s, x) ==
  Cardinality({k \in 1..Len(s) : PriorityOf(fs[s[k]]) > PriorityOf(fs[x])})

\* Where list.sort(key=priority, reverse=True) puts x among the already
\* sorted s: the sort is stable also with reverse=True, so behind every
\* element whose priority is at least its own.
hybrid_sort_position(fs, s, x) ==
  Cardinality({k \in 1..Len(s) : PriorityOf(fs[s[k]]) >= PriorityOf(fs[x])})

RECURSIVE hybrid_sort(_, _, _)
\* pending.sort(key=lambda f: f.get("priority", 0), reverse=True) on the
\* first k elements of pending.
hybrid_sort(fs, pending, k) ==
  IF k = 0 THEN <<>>
  ELSE LET s == hybrid_sort(fs, pending, k - 1)
           pos == hybrid_sort_position(fs, s, pending[k])
       IN SubSeq(s, 1, pos) \o <<pending[k]>> \o SubSeq(s, pos + 1, Len(s))

\* HybridLoopAgent.get_next_feature: the index of the feature returned, 0
\* for None.
hybrid_get_next_feature(fs) ==
  LET pending == PendingList(fs)
  IN IF pending = <<>> THEN 0
     ELSE IF \E k \in 1..Len(pending) : fs[pending[k]].has_priority
     THEN hybrid_sort(fs, pending, Len(pending))[1]
     ELSE pending[1]

NoCheckpoint == [present |-> FALSE, feature_id |-> 0, session_num |-> 0, attempt |-> 0]
NoSignal == [written |-> FALSE, reason |-> ""]
NoValidationResult == [success |-> FALSE, can_self_heal |-> FALSE]

\* What one call of execute_session_async can do:
\*   success      - ExecutionResult(success=True)
\*   failure      - ExecutionResult(success=False): the reply lacks the
\*                  success word, credentials are missing, or the SDK raised
\*   import_error - the import at the head of the function (outside its try)
\*                  raises, and the error leaves execute_feature and run
ExecOutcomes == {"success", "failure", "import_error"}

\* HybridLoopAgent.validate_result by what git diff showed:
\*   changes    - files were modified: success
\*   no_changes - nothing modified: failure, can_self_heal
\*   error      - the check itself raised: failure, cannot self-heal
ValidationOutcomes == {"changes", "no_changes", "error"}

validate_result(v) ==
  [success |-> v = "changes", can_self_heal |-> v = "no_changes"]

\* HybridLoopAgent.create_checkpoint
create_checkpoint(f, s, a) ==
  [present |-> TRUE, feature_id |-> f, session_num |-> s, attempt |-> a]

\* The outer sessions of execute_feature: range(self.max_outer_sessions).
OuterSessions == 0..(MaxOuterSessions - 1)

\* Executor calls made by the running execute_feature, per outer session:
\* none on entry.
NoCalls == [s \in OuterSessions |-> 0]

\* The memory of a process that is not running.
HybridMemoryCleared ==
  /\ hfeatures' = <<>>
  /\ hcur' = 0
  /\ session_num' = 0
  /\ attempt' = 0
  /\ result_success' = FALSE
  /\ hvalidation' = NoValidationResult
  /\ ef_success' = FALSE
  /\ ef_calls' = NoCalls

HybridStart ==
  /\ hstore \in AgentStores
  /\ hfeatures = <<>>
  /\ checkpoint = NoCheckpoint
  /\ hsignal = NoSignal
  /\ hpc = "stopped"
  /\ hcur = 0
  /\ session_num = 0
  /\ attempt = 0
  /\ result_success = FALSE
  /\ hvalidation = NoValidationResult
  /\ ef_success = FALSE
  /\ resume = NoCheckpoint
  /\ invoked = 0
  /\ failedThisRun = {}
  /\ hfails = 0
  /\ crashes = 0
  /\ hwrite_failed = FALSE
  /\ hpartial = FALSE
  /\ ef_calls = NoCalls

HybridIdle ==
  /\ hstore = <<>>
  /\ hfeatures = <<>>
  /\ checkpoint = NoCheckpoint
  /\ hsignal = NoSignal
  /\ hpc = "idle"
  /\ hcur = 0
  /\ session_num = 0
  /\ attempt = 0
  /\ result_success = FALSE
  /\ hvalidation = NoValidationResult
  /\ ef_success = FALSE
  /\ resume = NoCheckpoint
  /\ invoked = 0
  /\ failedThisRun = {}
  /\ hfails = 0
  /\ crashes = 0
  /\ hwrite_failed = FALSE
  /\ hpartial = FALSE
  /\ ef_calls = NoCalls

\* run() up to its loop: load the feature list; return when it is empty.
\* (load_checkpoint is not called here or anywhere else.)
HybridRunStart ==
  /\ hpc = "stopped"
  /\ hfeatures' = hstore
  /\ hpc' = IF hstore = <<>> THEN "done" ELSE "next"
  /\ resume' = checkpoint
  /\ invoked' = 0
  /\ failedThisRun' = {}
  /\ hfails' = 0
  /\ UNCHANGED <<hstore, checkpoint, hsignal, hcur, session_num, attempt,
                 result_success, hvalidation, ef_success, crashes,
                 hwrite_failed, hpartial, ef_calls, notHybrid>>

\* Head of the loop of run(): get_next_feature; with no pending feature write
\* the completion file ("status": "success") and leave, else enter
\* execute_feature at session 0, attempt 0.
HybridNextFeature ==
  /\ hpc = "next"
  /\ LET n == hybrid_get_next_feature(hfeatures)
     IN IF n = 0
        THEN /\ hsignal' = [written |-> TRUE, reason |-> "success"]
             /\ hpc' = "done"
             /\ UNCHANGED <<hcur, session_num, attempt, ef_calls>>
        ELSE /\ hcur' = n
             /\ session_num' = 0
             /\ attempt' = 0
             /\ hpc' = "exec"
             /\ ef_calls' = NoCalls
             /\ hsignal' = hsignal
  /\ UNCHANGED <<hstore, hfeatures, checkpoint, result_success, hvalidation,
                 ef_success, resume, invoked, failedThisRun, hfails, crashes,
                 hwrite_failed, hpartial, notHybrid>>

\* execute_feature: the executor call of (hcur, session_num, attempt).
HybridExecuteSession ==
  /\ hpc = "exec"
  /\ \E o \in ExecOutcomes :
       IF o = "import_error"
       THEN /\ hpc' = "raised"
            /\ UNCHANGED <<result_success, invoked, ef_calls>>
       ELSE /\ result_success' = (o = "success")
            /\ invoked' = IF invoked < 2 THEN invoked + 1 ELSE invoked
            /\ ef_calls' = [ef_calls EXCEPT ![session_num] = @ + 1]
            /\ hpc' = "validate"
  /\ UNCHANGED <<hstore, hfeatures, checkpoint, hsignal, hcur, session_num, attempt,
                 hvalidation, ef_success, resume, failedThisRun, hfails, crashes,
                 hwrite_failed, hpartial, notHybrid>>

\* execute_feature: validate_result after the executor call.
HybridValidate ==
  /\ hpc = "validate"
  /\ \E v \in ValidationOutcomes : hvalidation' = validate_result(v)
  /\ hpc' = "save_checkpoint"
  /\ UNCHANGED <<hstore, hfeatures, checkpoint, hsignal, hcur, session_num, attempt,
                 result_success, ef_success, resume, invoked, failedThisRun, hfails,
                 crashes,
                 hwrite_failed, hpartial, ef_calls, notHybrid>>

\* execute_feature: create_checkpoint after the validation, up to its
\* open(path, 'w'): the file is emptied, or the open raises and the error
\* leaves execute_feature and run.
HybridCreateCheckpoint ==
  /\ hpc = "save_checkpoint"
  /\ \E opened \in BOOLEAN :
       IF opened
       THEN /\ hpartial' = TRUE
            /\ hpc' = "write_checkpoint"
            /\ UNCHANGED hwrite_failed
       ELSE /\ hwrite_failed' = TRUE
            /\ hpc' = "raised"
            /\ UNCHANGED hpartial
  /\ UNCHANGED <<hstore, hfeatures, checkpoint, hsignal, hcur, session_num, attempt,
                 result_success, hvalidation, ef_success, resume, invoked,
                 failedThisRun, hfails, crashes, ef_calls, notHybrid>>

\* create_checkpoint after the open: json.dump writes the record out and
\* the file is closed.
HybridCheckpointWritten ==
  /\ hpc = "write_checkpoint"
  /\ checkpoint' = create_checkpoint(hcur, session_num, attempt)
  /\ hpartial' = FALSE
  /\ hpc' = "decide"
  /\ UNCHANGED <<hstore, hfeatures, hsignal, hcur, session_num, attempt,
                 result_success, hvalidation, ef_success, resume, invoked,
                 failedThisRun, hfails, crashes, hwrite_failed, ef_calls, notHybrid>>

\* HybridDecide with the self-heal retry allowed one attempt too many.
HybridDecide_one_more_attempt ==
  /\ hpc = "decide"
  /\ IF hvalidation.success
     THEN /\ checkpoint' = NoCheckpoint
          /\ ef_success' = TRUE
          /\ hpc' = "update"
          /\ UNCHANGED <<session_num, attempt>>
     ELSE IF hvalidation.can_self_heal /\ attempt < MaxInnerLoops
     THEN /\ attempt' = attempt + 1
          /\ hpc' = "exec"
          /\ UNCHANGED <<checkpoint, ef_success, session_num>>
     ELSE IF session_num + 1 < MaxOuterSessions
     THEN /\ session_num' = session_num + 1
          /\ attempt' = 0
          /\ hpc' = "exec"
          /\ UNCHANGED <<checkpoint, ef_success>>
     ELSE /\ ef_success' = FALSE
          /\ hpc' = "update"
          /\ UNCHANGED <<checkpoint, session_num, attempt>>
  /\ UNCHANGED <<hstore, hfeatures, hsignal, hcur, result_success, hvalidation,
                 resume, invoked, failedThisRun, hfails, crashes,
                 hwrite_failed, hpartial, ef_calls, notHybrid>>

\* HybridDecide with the self-heal retry consuming an outer session.
HybridDecide_heal_uses_session ==
  /\ hpc = "decide"
  /\ IF hvalidation.success
     THEN /\ checkpoint' = NoCheckpoint
          /\ ef_success' = TRUE
          /\ hpc' = "update"
          /\ UNCHANGED <<session_num, attempt>>
     ELSE IF hvalidation.can_self_heal /\ attempt < MaxInnerLoops - 1
     THEN /\ attempt' = attempt + 1
          /\ session_num' = IF session_num + 1 < MaxOuterSessions
                            THEN session_num + 1 ELSE session_num
          /\ hpc' = "exec"
          /\ UNCHANGED <<checkpoint, ef_success>>
     ELSE IF session_num + 1 < MaxOuterSessions
     THEN /\ session_num' = session_num + 1
          /\ attempt' = 0
          /\ hpc' = "exec"
          /\ UNCHANGED <<checkpoint, ef_success>>
     ELSE /\ ef_success' = FALSE
          /\ hpc' = "update"
          /\ UNCHANGED <<checkpoint, session_num, attempt>>
  /\ UNCHANGED <<hstore, hfeatures, hsignal, hcur, result_success, hvalidation,
                 resume, invoked, failedThisRun, hfails, crashes,
                 hwrite_failed, hpartial, ef_calls, notHybrid>>

\* HybridDecide returning success without clear_checkpoint.
HybridDecide_keeps_checkpoint ==
  /\ hpc = "decide"
  /\ IF hvalidation.success
     THEN /\ checkpoint' = checkpoint
          /\ ef_success' = TRUE
          /\ hpc' = "update"
          /\ UNCHANGED <<session_num, attempt>>
     ELSE IF hvalidation.can_self_heal /\ attempt < MaxInnerLoops - 1
     THEN /\ attempt' = attempt + 1
          /\ hpc' = "exec"
          /\ UNCHANGED <<checkpoint, ef_success, session_num>>
     ELSE IF session_num + 1 < MaxOuterSessions
     THEN /\ session_num' = session_num + 1
          /\ attempt' = 0
          /\ hpc' = "exec"
          /\ UNCHANGED <<checkpoint, ef_success>>
     ELSE /\ ef_success' = FALSE
          /\ hpc' = "update"
          /\ UNCHANGED <<checkpoint, session_num, attempt>>
  /\ UNCHANGED <<hstore, hfeatures, hsignal, hcur, result_success, hvalidation,
                 resume, invoked, failedThisRun, hfails, crashes,
                 hwrite_failed, hpartial, ef_calls, notHybrid>>

\* execute_feature: on a passed validation clear the checkpoint and return
\* success; on a self-healable failure with inner attempts left retry in the
\* same session; else break to the next session, or return failure when the
\* sessions are used up.
HybridDecide ==
  /\ hpc = "decide"
  /\ IF hvalidation.success
     THEN /\ checkpoint' = NoCheckpoint
          /\ ef_success' = TRUE
          /\ hpc' = "update"
          /\ UNCHANGED <<session_num, attempt>>
     ELSE IF hvalidation.can_self_heal /\ attempt < MaxInnerLoops - 1
     THEN /\ attempt' = attempt + 1
          /\ hpc' = "exec"
          /\ UNCHANGED <<checkpoint, ef_success, session_num>>
     ELSE IF session_num + 1 < MaxOuterSessions
     THEN /\ session_num' = session_num + 1
          /\ attempt' = 0
          /\ hpc' = "exec"
          /\ UNCHANGED <<checkpoint, ef_success>>
     ELSE /\ ef_success' = FALSE
          /\ hpc' = "update"
          /\ UNCHANGED <<checkpoint, session_num, attempt>>
  /\ UNCHANGED <<hstore, hfeatures, hsignal, hcur, result_success, hvalidation,
                 resume, invoked, failedThisRun, hfails, crashes,
                 hwrite_failed, hpartial, ef_calls, notHybrid>>

\* run() after execute_feature returned: feature["passes"] = result.success,
\* save_feature_list, and back to the head of the loop; a write that raises
\* leaves run.
HybridUpdateFeature ==
  /\ hpc = "update"
  /\ hfeatures' = [hfeatures EXCEPT ![hcur].passes = ef_success]
  /\ \E saved \in BOOLEAN :
       IF saved
       THEN /\ hstore' = hfeatures'
            /\ failedThisRun' =
                 IF ef_success THEN failedThisRun ELSE failedThisRun \cup {hcur}
            /\ hfails' = IF ef_success THEN 0 ELSE IF hfails < 3 THEN hfails + 1 ELSE hfails
            /\ hpc' = "next"
            /\ UNCHANGED hwrite_failed
       ELSE /\ hwrite_failed' = TRUE
            /\ hpc' = "raised"
            /\ UNCHANGED <<hstore, failedThisRun, hfails>>
  /\ UNCHANGED <<checkpoint, hsignal, hcur, session_num, attempt, result_success,
                 hvalidation, ef_success, resume, invoked, crashes, hpartial, ef_calls,
                 notHybrid>>

\* The process is killed while run() is under way: its memory is gone, the
\* files stay as they are.
HybridCrash ==
  /\ hpc \in {"next", "exec", "validate", "save_checkpoint", "write_checkpoint",
              "decide", "update"}
  /\ crashes < MaxCrashes
  /\ crashes' = crashes + 1
  /\ hpc' = "stopped"
  /\ HybridMemoryCleared
  /\ UNCHANGED <<hstore, checkpoint, hsignal, resume, invoked, failedThisRun, hfails,
                 hwrite_failed, hpartial, notHybrid>>

\* The steps of one run of the agent.
HybridRun ==
  \/ HybridRunStart
  \/ HybridNextFeature
  \/ HybridExecuteSession
  \/ HybridValidate
  \/ HybridCreateCheckpoint
  \/ HybridCheckpointWritten
  \/ HybridDecide
  \/ HybridUpdateFeature

HybridNext ==
  \/ HybridRunStart
  \/ HybridNextFeature
  \/ HybridExecuteSession
  \/ HybridValidate
  \/ HybridCreateCheckpoint
  \/ HybridCheckpointWritten
  \/ HybridDecide
  \/ HybridUpdateFeature
  \/ HybridCrash

\* ------------------------------------------------------------------------
\* autonomous_agent.py: AutonomousAgent
\* ------------------------------------------------------------------------
\* AutonomousAgent.MAX_RETRIES
MAX_RETRIES == 3

\* The sort key of get_next_feature for the feature at index i (from 1 here,
\* the order is the same): (-priority, index).
auto_sort_key(fs, i) == <<0 - PriorityOf(fs[i]), i>>

\* Python's order of tuples: a < b.
TupleLess(a, b) == a[1] < b[1] \/ (a[1] = b[1] /\ a[2] < b[2])

RECURSIVE auto_sort(_, _, _)
\* pending_with_index.sort(key=lambda x: (-priority, index)) on the first k
\* elements of pending: each goes behind the elements that are not greater.
auto_sort(fs, pending, k) ==
  IF k = 0 THEN <<>>
  ELSE LET s == auto_sort(fs, pending, k - 1)
           x == pending[k]
           pos == Cardinality({n \in 1..Len(s) :
                                 ~TupleLess(auto_sort_key(fs, x), auto_sort_key(fs, s[n]))})
       IN SubSeq(s, 1, pos) \o <<x>> \o SubSeq(s, pos + 1, Len(s))

\* AutonomousAgent.get_next_feature: the index of the feature returned, 0 for
\* None.
auto_get_next_feature(fs) ==
  LET pending == PendingList(fs)
  IN IF pending = <<>> THEN 0 ELSE auto_sort(fs, pending, Len(pending))[1]

NoAutoCheckpoint ==
  [present |-> FALSE, current_session |-> 0, features_completed |-> 0,
   consecutive_failures |-> 0, current_feature |-> 0]

\* AutonomousAgent.save_checkpoint: the state handed to CheckpointManager.save,
\* which replaces the file by a rename; current_feature 0 stands for None.
save_checkpoint(s, done, fails, f) ==
  [present |-> TRUE, current_session |-> s, features_completed |-> done,
   consecutive_failures |-> fails, current_feature |-> f]

\* What CheckpointManager.save can return: True, or False when the write
\* raised, which save logs and swallows.
SaveOutcomes == IF checkpoint_faulty THEN BOOLEAN ELSE {TRUE}

\* CheckpointManager.save: sdk-checkpoint.json after the call; a failed write
\* leaves the file as it was (the state went to the .tmp file).
checkpoint_save(ok, state) == IF ok THEN state ELSE acheckpoint

\* What one call of execute_session can do: return True, return False, or
\* raise (SDK import failure, missing credentials, transport error).
SessionOutcomes == {"success", "failure", "error"}

\* AutonomousAgent.__init__: the counters of a process that has just started.
AutoMemoryCleared ==
  /\ ai' = 0
  /\ current_session' = 0
  /\ features_completed' = 0
  /\ consecutive_failures' = 0
  /\ acur' = 0
  /\ aattempt' = 0
  /\ asuccess' = FALSE

AutoStart ==
  /\ astore \in AgentStores
  /\ areadable \in BOOLEAN
  /\ apartial = FALSE
  /\ acheckpoint = NoAutoCheckpoint
  /\ asignal = NoSignal
  /\ apc = "stopped"
  /\ ai = 0
  /\ current_session = 0
  /\ features_completed = 0
  /\ consecutive_failures = 0
  /\ acur = 0
  /\ aattempt = 0
  /\ asuccess = FALSE
  /\ aresume = NoAutoCheckpoint
  /\ last_started = 0
  /\ afailed = {}
  /\ aretried = FALSE
  /\ afails = 0
  /\ asignals = 0
  /\ acrashes = 0
  /\ alast = "none"
  /\ credentials \in BOOLEAN
  /\ save_failed = FALSE

AutoIdle ==
  /\ astore = <<>>
  /\ areadable = FALSE
  /\ apartial = FALSE
  /\ acheckpoint = NoAutoCheckpoint
  /\ asignal = NoSignal
  /\ apc = "idle"
  /\ ai = 0
  /\ current_session = 0
  /\ features_completed = 0
  /\ consecutive_failures = 0
  /\ acur = 0
  /\ aattempt = 0
  /\ asuccess = FALSE
  /\ aresume = NoAutoCheckpoint
  /\ last_started = 0
  /\ afailed = {}
  /\ aretried = FALSE
  /\ afails = 0
  /\ asignals = 0
  /\ acrashes = 0
  /\ alast = "none"
  /\ credentials = TRUE
  /\ checkpoint_faulty = FALSE
  /\ save_failed = FALSE

\* AutonomousAgent.signal_completion: write sdk_complete.json, clear the
\* checkpoint.
signal_completion(reason) ==
  /\ asignal' = [written |-> TRUE, reason |-> reason]
  /\ asignals' = IF asignals < 2 THEN asignals + 1 ELSE asignals
  /\ acheckpoint' = NoAutoCheckpoint

\* run() up to its loop: restore_from_checkpoint, start_session.
AutoRunStart ==
  /\ apc = "stopped"
  /\ IF acheckpoint.present
     THEN /\ current_session' = acheckpoint.current_session
          /\ features_completed' = acheckpoint.features_completed
          /\ consecutive_failures' = acheckpoint.consecutive_failures
     ELSE UNCHANGED <<current_session, features_completed, consecutive_failures>>
  /\ ai' = current_session'
  /\ apc' = "loop"
  /\ aresume' = acheckpoint
  /\ afailed' = {}
  /\ aretried' = FALSE
  /\ afails' = 0
  /\ asignals' = 0
  /\ UNCHANGED <<astore, areadable, apartial, acheckpoint, asignal, acur, aattempt, asuccess,
                 last_started, acrashes, alast, credentials, checkpoint_faulty, save_failed, notAuto>>

\* Head of the loop of run(): past the last iteration, or when the feature
\* list cannot be loaded, signal max_iterations_reached; with no pending
\* feature signal success; else save the checkpoint and enter
\* execute_session_with_retry.
AutoLoopHead ==
  /\ apc = "loop"
  /\ IF ai >= MaxIterations
     THEN /\ signal_completion("max_iterations_reached")
          /\ apc' = "done"
          /\ UNCHANGED <<current_session, acur, aattempt, save_failed>>
     ELSE /\ current_session' = ai + 1
          /\ IF ~areadable
             THEN /\ signal_completion("max_iterations_reached")
                  /\ apc' = "done"
                  /\ UNCHANGED <<acur, aattempt, save_failed>>
             ELSE LET n == auto_get_next_feature(astore)
                  IN IF n = 0
                     THEN /\ signal_completion("success")
                          /\ apc' = "done"
                          /\ UNCHANGED <<acur, aattempt, save_failed>>
                     ELSE /\ acur' = n
                          /\ aattempt' = 0
                          /\ \E ok \in SaveOutcomes :
                               /\ acheckpoint' =
                                    checkpoint_save(ok, save_checkpoint(ai + 1,
                                       features_completed, consecutive_failures, n))
                               /\ save_failed' = (save_failed \/ ~ok)
                          /\ apc' = "exec"
                          /\ UNCHANGED <<asignal, asignals>>
  /\ UNCHANGED <<astore, areadable, apartial, ai, features_completed, consecutive_failures,
                 asuccess, aresume, last_started, afailed, aretried, afails, acrashes,
                 alast, credentials, checkpoint_faulty, notAuto>>

\* AutoExecuteSession as it would be if a returned False were retried like a
\* raised error.
AutoExecuteSession_retry_on_failure ==
  /\ apc = "exec"
  /\ last_started' = current_session
  /\ aretried' = (aretried \/ acur \in afailed)
  /\ \E o \in SessionOutcomes :
       /\ ~credentials => o = "error"
       /\ alast' = o
       /\ IF o # "success" /\ aattempt < MAX_RETRIES - 1
          THEN /\ aattempt' = aattempt + 1
               /\ UNCHANGED <<asuccess, apc>>
          ELSE /\ asuccess' = (o = "success")
               /\ apc' = "after"
               /\ UNCHANGED aattempt
  /\ UNCHANGED <<astore, areadable, apartial, acheckpoint, asignal, ai, current_session,
                 features_completed, consecutive_failures, acur, aresume, afailed,
                 afails, asignals, acrashes, credentials, checkpoint_faulty, save_failed, notAuto>>

\* execute_session_with_retry: one call of execute_session; a raised error
\* is retried up to MAX_RETRIES calls, a returned value is final.  Without
\* credentials _execute_session_async raises RuntimeError.
AutoExecuteSession ==
  /\ apc = "exec"
  /\ last_started' = current_session
  /\ aretried' = (aretried \/ acur \in afailed)
  /\ \E o \in SessionOutcomes :
       /\ ~credentials => o = "error"
       /\ alast' = o
       /\ IF o = "error" /\ aattempt < MAX_RETRIES - 1
          THEN /\ aattempt' = aattempt + 1
               /\ UNCHANGED <<asuccess, apc>>
          ELSE /\ asuccess' = (o = "success")
               /\ apc' = "after"
               /\ UNCHANGED aattempt
  /\ UNCHANGED <<astore, areadable, apartial, acheckpoint, asignal, ai, current_session,
                 features_completed, consecutive_failures, acur, aresume, afailed,
                 afails, asignals, acrashes, credentials, checkpoint_faulty, save_failed, notAuto>>

\* run() after execute_session_with_retry returned: on success set passes
\* and enter save_features, whose open(path, 'w') empties the file; on
\* failure count it and at three in a row signal stall_detected and return.
AutoAfterSession ==
  /\ apc = "after"
  /\ IF asuccess
     THEN /\ areadable' = FALSE
          /\ apartial' = TRUE
          /\ apc' = "save_features"
          /\ UNCHANGED <<consecutive_failures, afailed, afails, asignal, asignals,
                         acheckpoint>>
     ELSE /\ consecutive_failures' = consecutive_failures + 1
          /\ afailed' = afailed \cup {acur}
          /\ afails' = IF afails < 3 THEN afails + 1 ELSE afails
          /\ IF consecutive_failures + 1 >= 3
             THEN /\ signal_completion("stall_detected")
                  /\ apc' = "done"
             ELSE /\ apc' = "save_checkpoint"
                  /\ UNCHANGED <<asignal, asignals, acheckpoint>>
          /\ UNCHANGED <<areadable, apartial>>
  /\ UNCHANGED <<astore, features_completed, ai, current_session, acur, aattempt,
                 asuccess, aresume, last_started, aretried, acrashes, alast, credentials,
                 checkpoint_faulty, save_failed, notAuto>>

\* AutoSaveFeatures writing passes = true into every record of the store.
AutoSaveFeatures_marks_all ==
  /\ apc = "save_features"
  /\ astore' = [i \in DOMAIN astore |-> [astore[i] EXCEPT !.passes = TRUE]]
  /\ areadable' = TRUE
  /\ apartial' = FALSE
  /\ features_completed' = features_completed + 1
  /\ consecutive_failures' = 0
  /\ afails' = 0
  /\ apc' = "save_checkpoint"
  /\ UNCHANGED <<acheckpoint, asignal, ai, current_session, acur, aattempt, asuccess,
                 aresume, last_started, afailed, aretried, asignals, acrashes, alast,
                 credentials, checkpoint_faulty, save_failed, notAuto>>

\* save_features after the open: json.dump writes the list out and the file
\* is closed; then the counters of run().
AutoSaveFeatures ==
  /\ apc = "save_features"
  /\ astore' = [astore EXCEPT ![acur].passes = TRUE]
  /\ areadable' = TRUE
  /\ apartial' = FALSE
  /\ features_completed' = features_completed + 1
  /\ consecutive_failures' = 0
  /\ afails' = 0
  /\ apc' = "save_checkpoint"
  /\ UNCHANGED <<acheckpoint, asignal, ai, current_session, acur, aattempt, asuccess,
                 aresume, last_started, afailed, aretried, asignals, acrashes, alast,
                 credentials, checkpoint_faulty, save_failed, notAuto>>

\* run(): save_checkpoint() at the foot of the loop, then the next iteration.
AutoSaveCheckpoint ==
  /\ apc = "save_checkpoint"
  /\ \E ok \in SaveOutcomes :
       /\ acheckpoint' = checkpoint_save(ok, save_checkpoint(current_session,
                                             features_completed, consecutive_failures, 0))
       /\ save_failed' = (save_failed \/ ~ok)
  /\ ai' = ai + 1
  /\ apc' = "loop"
  /\ UNCHANGED <<astore, areadable, apartial, asignal, current_session, features_completed,
                 consecutive_failures, acur, aattempt, asuccess, aresume, last_started,
                 afailed, aretried, afails, asignals, acrashes, alast, credentials,
                 checkpoint_faulty, notAuto>>

\* The process is killed while run() is under way: its memory is gone, the
\* files stay as they are.
AutoCrash ==
  /\ apc \in {"loop", "exec", "after", "save_features", "save_checkpoint"}
  /\ acrashes < MaxCrashes
  /\ acrashes' = acrashes + 1
  /\ apc' = "stopped"
  /\ AutoMemoryCleared
  /\ UNCHANGED <<astore, areadable, apartial, acheckpoint, asignal, aresume, last_started, afailed,
                 aretried, afails, asignals, alast, credentials, checkpoint_faulty, save_failed, notAuto>>

\* The steps of one run of the agent.
AutoRun ==
  \/ AutoRunStart
  \/ AutoLoopHead
  \/ AutoExecuteSession
  \/ AutoAfterSession
  \/ AutoSaveFeatures
  \/ AutoSaveCheckpoint

AutoNext ==
  \/ AutoRunStart
  \/ AutoLoopHead
  \/ AutoExecuteSession
  \/ AutoAfterSession
  \/ AutoSaveFeatures
  \/ AutoSaveCheckpoint
  \/ AutoCrash

\* ------------------------------------------------------------------------
\* parallel_coordinator.py: execute_level, WorkerSessionManager
\* ------------------------------------------------------------------------
\* The base / target branch as a value of HEAD.
BaseBranch == 0

\* What GitManager.create_branch can do.  "git checkout base" is started and
\* not waited for, so it runs together with "git checkout -b branch":
\*   from_base           - the switch to base landed first; branch made at base
\*   from_head           - the branch was made at the old HEAD, the switch to
\*                         base then failed on the index lock
\*   from_head_then_base - the branch was made at the old HEAD, the switch
\*                         to base landed afterwards
\*   failed              - the switch to base landed, "checkout -b" failed
\*                         (index lock, or the branch exists); returns False
CreateOutcomes == {"from_base", "from_head", "from_head_then_base", "failed"}

NoBranch == "none"

\* GitManager.create_branch: where the new branch starts ("none": no branch).
create_branch_from(o, head) ==
  IF o = "failed" THEN NoBranch
  ELSE IF o = "from_base" THEN "base"
  ELSE IF head = BaseBranch THEN "base" ELSE "head"

\* GitManager.create_branch: HEAD after the call.
create_branch_head(o, f) ==
  IF o \in {"from_base", "from_head"} THEN f ELSE BaseBranch

\* A worker record left in worker-sessions.json by an earlier run.
StaleWorker == [feature_id |-> 0, status |-> "running"]
StaleWorkerIds == {2}

\* WorkerSessionManager._load: what the constructor can find on disk.
LoadedWorkers ==
  {[w \in S |-> StaleWorker] : S \in SUBSET StaleWorkerIds}

\* WorkerSessionManager.create_worker: the id is len(active_workers) + 1 and
\* the record replaces whatever that id held.
create_worker_id(active) == Cardinality(DOMAIN active) + 1

create_worker(active, feature_id) ==
  LET worker_id == create_worker_id(active)
  IN [w \in DOMAIN active \cup {worker_id} |->
        IF w = worker_id THEN [feature_id |-> feature_id, status |-> "pending"]
        ELSE active[w]]

\* WorkerSessionManager.update_worker_status
update_worker_status(active, worker_id, status) ==
  IF worker_id \in DOMAIN active
  THEN [active EXCEPT ![worker_id].status = status]
  ELSE active

\* WorkerSessionManager.complete_worker: the active set and the log after it.
complete_worker_active(active, worker_id) ==
  [w \in DOMAIN active \ {worker_id} |-> active[w]]

complete_worker_log(active, log, worker_id, result) ==
  IF worker_id \in DOMAIN active
  THEN Append(log, [feature_id |-> active[worker_id].feature_id, result |-> result])
  ELSE log

\* The levels execute_level is called on: features 1..n, any of which may
\* lack the description _execute_worker reads.
LevelInputs(n) ==
  /\ feature_ids = [i \in 1..n |-> i]
  /\ has_description \in [1..n -> BOOLEAN]
  /\ branch_from = [i \in 1..n |-> NoBranch]
  /\ branch_base = [i \in 1..n |-> <<>>]
  /\ workers = <<>>
  /\ wpc = <<>>
  /\ epc = "create"
  /\ level_results = <<>>

LevelStart ==
  /\ lvl = 1
  /\ \E n \in 1..LevelSize : LevelInputs(n)
  /\ HEAD = BaseBranch
  /\ active_workers \in LoadedWorkers
  /\ completed_workers = <<>>
  /\ prereqs = {}

LevelIdle ==
  /\ lvl = 0
  /\ feature_ids = <<>>
  /\ has_description = <<>>
  /\ HEAD = BaseBranch
  /\ branch_from = <<>>
  /\ branch_base = <<>>
  /\ active_workers = <<>>
  /\ completed_workers = <<>>
  /\ workers = <<>>
  /\ wpc = <<>>
  /\ epc = "idle"
  /\ level_results = <<>>
  /\ prereqs = {}

\* One iteration of the first loop of execute_level: create_branch (its
\* result is not looked at), then create_worker.
CreateWorker ==
  /\ epc = "create"
  /\ LET f == feature_ids[Len(workers) + 1]
     IN /\ \E o \in CreateOutcomes :
             /\ branch_from' = [branch_from EXCEPT ![f] = create_branch_from(o, HEAD)]
             /\ branch_base' = [branch_base EXCEPT ![f] =
                                  IF o = "failed" THEN <<>> ELSE target]
             /\ HEAD' = create_branch_head(o, f)
        /\ workers' = Append(workers, [worker_id |-> create_worker_id(active_workers),
                                       feature_id |-> f])
        /\ active_workers' = create_worker(active_workers, f)
        /\ wpc' = Append(wpc, "created")
        /\ epc' = IF Len(workers) + 1 = Len(feature_ids) THEN "gather" ELSE "create"
  /\ UNCHANGED <<lvl, feature_ids, has_description, completed_workers, level_results,
                 prereqs, notLevel>>

\* _execute_worker up to its sleep.  asyncio.gather starts the tasks in
\* their order; a record without description raises KeyError at once.
WorkerStart ==
  /\ epc = "gather"
  /\ \E i \in 1..Len(workers) :
       /\ wpc[i] = "created"
       /\ \A j \in 1..(i - 1) : wpc[j] # "created"
       /\ IF has_description[workers[i].feature_id]
          THEN /\ active_workers' =
                    update_worker_status(active_workers, workers[i].worker_id, "running")
               /\ wpc' = [wpc EXCEPT ![i] = "running"]
          ELSE /\ wpc' = [wpc EXCEPT ![i] = "raised"]
               /\ UNCHANGED active_workers
  /\ UNCHANGED <<lvl, feature_ids, has_description, HEAD, branch_from, branch_base,
                 completed_workers, workers, epc, level_results, prereqs, notLevel>>

\* _execute_worker after its sleep: status completed, complete_worker,
\* return True.  Every task has reached its sleep before any wakes up.
WorkerFinish ==
  /\ epc = "gather"
  /\ \A j \in 1..Len(workers) : wpc[j] # "created"
  /\ \E i \in 1..Len(workers) :
       /\ wpc[i] = "running"
       /\ LET id == workers[i].worker_id
              a1 == update_worker_status(active_workers, id, "completed")
          IN /\ completed_workers' = complete_worker_log(a1, completed_workers, id, "success")
             /\ active_workers' = complete_worker_active(a1, id)
       /\ wpc' = [wpc EXCEPT ![i] = "returned"]
  /\ UNCHANGED <<lvl, feature_ids, has_description, HEAD, branch_from, branch_base,
                 workers, epc, level_results, prereqs, notLevel>>

\* gather_results as it would be with return_exceptions left out: one
\* raising task sends execute_level to its except branch, which marks every
\* feature of the level failed.
gather_results_all_failed(ws, pcs) ==
  [f \in {ws[i].feature_id : i \in 1..Len(ws)} |->
     \A i \in 1..Len(ws) : pcs[i] = "returned"]

\* execute_level after asyncio.gather(..., return_exceptions=True): an
\* exception becomes False, a returned value is taken as it is.
gather_results(ws, pcs) ==
  [f \in {ws[i].feature_id : i \in 1..Len(ws)} |->
     LET i == CHOOSE k \in 1..Len(ws) :
                ws[k].feature_id = f /\ \A j \in (k + 1)..Len(ws) : ws[j].feature_id # f
     IN pcs[i] = "returned"]

GatherResults ==
  /\ epc = "gather"
  /\ \A j \in 1..Len(workers) : wpc[j] \in {"returned", "raised"}
  /\ level_results' = gather_results(workers, wpc)
  /\ epc' = "done"
  /\ UNCHANGED <<lvl, feature_ids, has_description, HEAD, branch_from, branch_base,
                 active_workers, completed_workers, workers, wpc, prereqs, notLevel>>

LevelNext ==
  \/ CreateWorker
  \/ WorkerStart
  \/ WorkerFinish
  \/ GatherResults

\* ------------------------------------------------------------------------
\* A run over the levels of the plan: execute_level, then
\* merge_level_results, level after level (the calling pattern of
\* test_coordinator; the loop over the levels follows spec section 5).
\* Feature ids are labels within a level; every feature of level N+1
\* depends on the features of level N.
\* ------------------------------------------------------------------------
RunStart ==
  /\ lvl = 1
  /\ \E n \in 1..RunLevelSize : LevelInputs(n)
  /\ HEAD = BaseBranch
  /\ active_workers = <<>>
  /\ completed_workers = <<>>
  /\ prereqs = {}
  /\ target \in TargetHistories
  /\ preLevel = target
  /\ branches = {}
  /\ results = <<>>
  /\ successful_features = <<>>
  /\ mpc = "wait"
  /\ mi = 1
  /\ merge_conflicts = <<>>
  /\ outcome = [f \in LevelFeatures |-> "none"]
  /\ mergeResult = NoMergeResult
  /\ test_suite = _run_integration_tests
  /\ git_running = 0
  /\ overlap = FALSE
  /\ rolled_back = FALSE

\* execute_level has returned, its locals are gone: call
\* merge_level_results on its results.
StartMerge ==
  /\ epc = "done"
  /\ epc' = "merging"
  /\ results' = level_results
  /\ preLevel' = target
  /\ branches' = {f \in DOMAIN branch_from : branch_from[f] # NoBranch}
  /\ successful_features' = <<>>
  /\ mpc' = "start"
  /\ mi' = 1
  /\ merge_conflicts' = <<>>
  /\ outcome' = [f \in LevelFeatures |-> "none"]
  /\ mergeResult' = NoMergeResult
  /\ rolled_back' = FALSE
  /\ UNCHANGED <<target, test_suite, git_running, overlap>>
  /\ workers' = <<>>
  /\ wpc' = <<>>
  /\ level_results' = <<>>
  /\ has_description' = <<>>
  /\ branch_from' = <<>>
  /\ branch_base' = <<>>
  /\ UNCHANGED <<lvl, feature_ids, HEAD, active_workers, completed_workers, prereqs>>
  /\ UNCHANGED notRun

\* merge_level_results has reported success: the level is final and the next
\* level is executed.  (merge_branch left the target branch checked out.)
\* prereqs: the merge commits of the level's successful features, those
\* whose branch held something to merge.
NextLevel ==
  /\ epc = "merging"
  /\ mpc = "done"
  /\ mergeResult.success
  /\ lvl < NumLevels
  /\ lvl' = lvl + 1
  /\ \E n \in 1..RunLevelSize :
       /\ feature_ids' = [i \in 1..n |-> i]
       /\ has_description' \in [1..n -> BOOLEAN]
       /\ branch_from' = [i \in 1..n |-> NoBranch]
       /\ branch_base' = [i \in 1..n |-> <<>>]
  /\ workers' = <<>>
  /\ wpc' = <<>>
  /\ epc' = "create"
  /\ level_results' = <<>>
  /\ HEAD' = BaseBranch
  /\ prereqs' = {MergeCommit(p) : p \in {q \in Range(successful_features) :
                                            outcome[q] # "uptodate"}}
  /\ preLevel' = target
  /\ branches' = {}
  /\ results' = <<>>
  /\ successful_features' = <<>>
  /\ mpc' = "wait"
  /\ mi' = 1
  /\ merge_conflicts' = <<>>
  /\ outcome' = [f \in LevelFeatures |-> "none"]
  /\ mergeResult' = NoMergeResult
  /\ overlap' = FALSE
  /\ UNCHANGED <<target, test_suite, git_running, rolled_back>>
  /\ UNCHANGED <<active_workers, completed_workers, notRun>>

RunNext ==
  \/ CreateWorker
  \/ WorkerStart
  \/ WorkerFinish
  \/ GatherResults
  \/ StartMerge
  \/ BeginMerge
  \/ MergeBranch
  \/ FinishMerge
  \/ MergeAbortExits
  \/ NextLevel

\* ------------------------------------------------------------------------
\* The Workers of a level: one HybridLoopAgent.execute_feature per feature in
\* flight, all constructed on the same project directory (what
\* _execute_worker stands in for; spec section 5).  Every agent derives the
\* same checkpoint path from the project directory.
\* ------------------------------------------------------------------------
\* A Worker at the head of execute_feature; saved is the checkpoint it last
\* wrote and has not cleared.
WorkerEntered ==
  [pc |-> "exec", session_num |-> 0, attempt |-> 0, validation |-> NoValidationResult,
   saved |-> NoCheckpoint]

WorkersStart ==
  /\ \E n \in 1..NumInFlight : in_flight = [f \in 1..n |-> WorkerEntered]
  /\ project_checkpoint = NoCheckpoint

WorkersIdle ==
  /\ in_flight = <<>>
  /\ project_checkpoint = NoCheckpoint

\* execute_feature of the Worker of feature f: the executor call and
\* validate_result of (session_num, attempt).
WorkerExecuteSession ==
  \E f \in DOMAIN in_flight :
    /\ in_flight[f].pc = "exec"
    /\ \E v \in ValidationOutcomes :
         in_flight' = [in_flight EXCEPT ![f].validation = validate_result(v),
                                        ![f].pc = "save_checkpoint"]
    /\ UNCHANGED <<project_checkpoint, notWorkers>>

\* create_checkpoint of the Worker of feature f, on self.checkpoint_path.
WorkerCreateCheckpoint ==
  \E f \in DOMAIN in_flight :
    /\ in_flight[f].pc = "save_checkpoint"
    /\ project_checkpoint' =
         create_checkpoint(f, in_flight[f].session_num, in_flight[f].attempt)
    /\ in_flight' = [in_flight EXCEPT ![f].pc = "decide",
                                     ![f].saved = project_checkpoint']
    /\ UNCHANGED notWorkers

\* The Worker of feature f after its create_checkpoint: clear_checkpoint and
\* return success, retry in the same session, go to the next session, or
\* return failure.
WorkerDecide ==
  \E f \in DOMAIN in_flight :
    LET w == in_flight[f]
    IN /\ w.pc = "decide"
       /\ IF w.validation.success
          THEN /\ project_checkpoint' = NoCheckpoint
               /\ in_flight' = [in_flight EXCEPT ![f].pc = "returned",
                                                ![f].saved = NoCheckpoint]
          ELSE IF w.validation.can_self_heal /\ w.attempt < MaxInnerLoops - 1
          THEN /\ in_flight' = [in_flight EXCEPT ![f].attempt = @ + 1, ![f].pc = "exec"]
               /\ UNCHANGED project_checkpoint
          ELSE IF w.session_num + 1 < MaxOuterSessions
          THEN /\ in_flight' = [in_flight EXCEPT ![f].session_num = @ + 1,
                                                 ![f].attempt = 0, ![f].pc = "exec"]
               /\ UNCHANGED project_checkpoint
          ELSE /\ in_flight' = [in_flight EXCEPT ![f].pc = "returned"]
               /\ UNCHANGED project_checkpoint
       /\ UNCHANGED notWorkers

WorkersNext ==
  \/ WorkerExecuteSession
  \/ WorkerCreateCheckpoint
  \/ WorkerDecide

\* ------------------------------------------------------------------------
\* Functions called on their own
\* ------------------------------------------------------------------------
\* ret before the call; << v >> once the function has returned v.
NoReturn == <<>>

CallIdle ==
  /\ arg = <<>>
  /\ ret = NoReturn

\* Feature records as get_next_feature may meet them: priorities of either
\* sign, the key present or not.
PickFeatureRecs ==
  {[passes |-> p, has_priority |-> hp, priority |-> pr] :
     p \in BOOLEAN, hp \in BOOLEAN, pr \in (0 - MaxPriority)..MaxPriority}

\* The feature lists get_next_feature is called on, the empty one included.
PickInputs ==
  UNION {{s \in [1..n -> PickFeatureRecs] :
            \A i \in 1..n : ~s[i].has_priority => s[i].priority = 0} :
         n \in 0..NumAgentFeatures}

PickStart ==
  /\ arg \in PickInputs
  /\ ret = NoReturn

\* get_next_feature of both agents on the same list.
GetNextFeature ==
  /\ ret = NoReturn
  /\ ret' = <<[auto |-> auto_get_next_feature(arg),
             hybrid |-> hybrid_get_next_feature(arg)]>>
  /\ UNCHANGED <<arg, notCall>>

PickNext == GetNextFeature

\* ------------------------------------------------------------------------
\* Vocabulary of the claims about the graph, read off the store itself
\* ------------------------------------------------------------------------
\* d is a declared dependency of feature n.
Requires(n, d) == d \in Range(features[n].dependencies)

AllResolve == \A n \in FeatureIds : Range(features[n].dependencies) \subseteq FeatureIds

RECURSIVE ReachIn(_, _, _)
ReachIn(S, k, n) ==
  IF k = 0 THEN S
  ELSE ReachIn(S \cup {d \in FeatureIds : \E m \in S : Requires(m, d)}, k - 1, n)

\* The features n needs directly or transitively.
Needs(n) == ReachIn({d \in FeatureIds : Requires(n, d)}, NumFeatures, n)

HasCycle == \E n \in FeatureIds : n \in Needs(n)

MissingRefs == UNION {Range(features[n].dependencies) : n \in FeatureIds} \ FeatureIds

LevelsOf(n) == {i \in 1..Len(levels) : n \in levels[i]}

\* c lists a dependency cycle of the store: it closes on its first feature
\* and each feature requires the next one.
IsCycleListing(c) ==
  /\ Len(c) >= 2
  /\ c[1] = c[Len(c)]
  /\ \A i \in 1..(Len(c) - 1) : c[i] \in FeatureIds /\ Requires(c[i], c[i + 1])

\* C1: for an acyclic store whose dependency ids all resolve, after planning
\* every feature is in exactly one level and in a strictly later level than
\* each feature it requires, whatever the listing order.
C1_LevelsRespectDependencies ==
  (gpc = "planned" /\ AllResolve /\ ~HasCycle) =>
     /\ \A n \in FeatureIds : Cardinality(LevelsOf(n)) = 1
     /\ \A n, d \in FeatureIds :
          Requires(n, d) => \A i \in LevelsOf(n), j \in LevelsOf(d) : j < i

\* C6: for a store with a dependency cycle, validate_dependencies returns
\* is_valid = false with an error listing the features of a cycle, and
\* neither it nor reorder_by_topology runs topological_sort on the graph.
C6_CycleRejectedAndNotPlanned ==
  (gpc \in {"validated", "reordered"} /\ HasCycle) =>
     /\ ~validation.raised
     /\ ~validation.is_valid
     /\ \E i \in 1..Len(validation.cycles) : IsCycleListing(validation.cycles[i])
     /\ sortRuns = 0

\* C7: for a store with a dependency id that resolves to no feature,
\* validate_dependencies returns is_valid = false with an error naming each
\* missing id.
C7_MissingIdReported ==
  (gpc = "validated" /\ MissingRefs # {}) =>
     /\ ~validation.raised
     /\ ~validation.is_valid
     /\ \A m \in MissingRefs :
          \E e \in validation.errors : e.kind = "missing" /\ e.dep = m

\* The level index of feature n in a list of levels (0: in no level).
LevelIn(ls, n) ==
  IF \E i \in 1..Len(ls) : n \in ls[i]
  THEN CHOOSE i \in 1..Len(ls) : n \in ls[i]
  ELSE 0

\* C18: after a feature is marked passes = true and the plan is recomputed
\* from the store, that feature is in no level of the new plan, and every
\* pair of remaining features keeps the relative level order it had before.
C18_PassedFeatureLeavesPlan ==
  (gpc = "planned" /\ replan = "marked") =>
     /\ \A i \in 1..Len(levels) : marked \notin levels[i]
     /\ \A a, b \in FeatureIds \ {marked} :
          LevelIn(prevLevels, a) < LevelIn(prevLevels, b)
             <=> LevelIn(levels, a) < LevelIn(levels, b)

\* C19: the pipeline run again on an unchanged store gives the same
\* validation outcome and the same levels; planning again on the same graph
\* gives the same levels; validating leaves the graph as it was built; and
\* inserting an edge that is already present changes neither the edge list
\* nor any node's adjacency lists.
C19_PipelineIdempotent ==
  /\ (gpc = "planned" /\ replan = "same_store") =>
        /\ levels = prevLevels
        /\ (validation.done /\ prevValidation.done) => validation = prevValidation
  /\ (gpc = "validated" /\ replan = "same_store" /\ prevValidation.done) =>
        validation = prevValidation
  /\ (gpc = "planned" /\ replan = "same_graph") => levels = prevLevels
  /\ dupInserts > 0 => Graph = graphBefore
  /\ Len(edges) = Cardinality(Range(edges))

\* C19 witness: a store with dependencies was planned and the pipeline was
\* run again to its plan, an edge the graph holds being inserted again on
\* the way.
C19_Witness ==
  /\ gpc = "planned"
  /\ replan = "same_store"
  /\ dupInserts > 0
  /\ edges # <<>>
  /\ Len(levels) > 1

\* C24: once the graph is built, in whatever order the store lists the
\* features, for every edge (p, d) between known features d is in p's
\* dependents and p is in d's dependencies, and the edge is stored once.
C24_EdgesMirroredOnBothSides ==
  gpc = "built" =>
     \A p, d \in FeatureIds :
        Requires(d, p) =>
           /\ d \in Range(nodes[p].dependents)
           /\ p \in Range(nodes[d].dependencies)
           /\ Cardinality({i \in 1..Len(edges) : edges[i] = <<p, d>>}) = 1

RECURSIVE DepthIn(_, _)
\* The earliest level index of feature n in an acyclic store: 0 without
\* dependencies, else one more than the largest among its dependencies (k
\* bounds the descent).
DepthIn(n, k) ==
  LET deps == {d \in FeatureIds : Requires(n, d)}
  IN IF deps = {} \/ k = 0 THEN 0
     ELSE 1 + Max({DepthIn(d, k - 1) : d \in deps})

\* Every feature of the store is listed behind the features it requires.
PrerequisitesListedFirst ==
  \A n, d \in FeatureIds : Requires(n, d) => d < n

\* C34: for an acyclic store with all dependencies resolved, level 0 is the
\* set of the features without dependencies and every other feature's level
\* index is one more than the largest level index among its dependencies.
C34_EarliestLevel ==
  (gpc = "planned" /\ AllResolve /\ ~HasCycle) =>
     /\ Len(levels) >= 1
     /\ \A n \in FeatureIds : LevelsOf(n) = {DepthIn(n, NumFeatures) + 1}

\* The same for the stores listed prerequisites first.
EarliestLevelWhenListedInOrder == PrerequisitesListedFirst => C34_EarliestLevel

\* reorder_by_topology returned a list for a store that passed validation.
Reordered == gpc = "reordered" /\ reordered.done /\ ~reordered.raised

\* The features of the same dependency level are in their input order in o.
SameLevelKeepsInputOrder(o) ==
  \A i, j \in 1..Len(o) :
     (i < j /\ DepthIn(o[i], NumFeatures) = DepthIn(o[j], NumFeatures)) => o[i] < o[j]

\* C35: for every feature list that passes dependency validation,
\* reorder_by_topology returns a permutation of its input in which every
\* feature comes after the features it depends on, the features without
\* dependencies come first, and the features of one dependency level keep
\* their relative input order.
C35_ReorderIsStableTopologicalOrder ==
  Reordered =>
     LET o == reordered.order
     IN /\ Len(o) = NumFeatures /\ Range(o) = FeatureIds
        /\ \A i, j \in 1..Len(o) : Requires(o[i], o[j]) => j < i
        /\ \A i, j \in 1..Len(o) :
              (DepthIn(o[i], NumFeatures) = 0 /\ DepthIn(o[j], NumFeatures) > 0) => i < j
        /\ SameLevelKeepsInputOrder(o)

\* The same without the order inside a level, for the stores listed
\* prerequisites first.
ReorderIsTopologicalWhenListedInOrder ==
  (Reordered /\ PrerequisitesListedFirst) =>
     LET o == reordered.order
     IN /\ Len(o) = NumFeatures /\ Range(o) = FeatureIds
        /\ \A i, j \in 1..Len(o) : Requires(o[i], o[j]) => j < i

RECURSIVE ReachByEdges(_, _)
\* The nodes reached from the set S along the edge list in up to k steps.
ReachByEdges(S, k) ==
  IF k = 0 THEN S
  ELSE ReachByEdges(S \cup {e[2] : e \in {x \in Range(edges) : x[1] \in S}}, k - 1)

\* The edge list holds a cycle: some node is reached from its successors.
EdgesHaveCycle ==
  \E n \in FeatureIds :
     n \in ReachByEdges({e[2] : e \in {x \in Range(edges) : x[1] = n}}, NumFeatures)

\* C36: detect_implicit_dependencies never adds an edge that closes a cycle:
\* on a graph whose explicit dependencies are acyclic it leaves the graph
\* acyclic, whatever categories the features fall in, and it adds no
\* self-edge.
C36_ImplicitEdgesKeepGraphAcyclic ==
  (gpc = "implicit" /\ ~HasCycle) =>
     /\ ~EdgesHaveCycle
     /\ \A n \in FeatureIds : <<n, n>> \notin Range(edges)

\* detect_implicit_dependencies adds no self-edge.
ImplicitAddsNoSelfEdge ==
  gpc = "implicit" => \A n \in FeatureIds : <<n, n>> \in Range(edges) => Requires(n, n)
\* ------------------------------------------------------------------------
\* Claims about merge_level_results
\* ------------------------------------------------------------------------
\* The features whose branch content is in the target after merge_branch.
Merged == {f \in LevelFeatures : outcome[f] \in {"clean", "uptodate"}}

\* C2: whenever the merge of a successful feature conflicts, the target
\* branch after the rollback is exactly the commit sequence it was before the
\* level's first merge.
C2_RollbackRestoresPreLevel ==
  (mpc = "done" /\ \E f \in LevelFeatures : outcome[f] = "conflict") =>
     target = preLevel

\* C3: the level is reported as success, and an isolation branch deleted,
\* only if every successful feature's branch was actually merged into target.
C3_SuccessOnlyIfAllMerged ==
  mpc = "done" =>
     /\ mergeResult.success => Range(successful_features) \subseteq Merged
     /\ \A f \in LevelFeatures : (results[f] /\ f \notin branches) => f \in Merged

\* ------------------------------------------------------------------------
\* Claims about the agents' loops, stated on HybridLoopAgent
\* ------------------------------------------------------------------------
\* The executor has just been invoked for (hcur, session_num, attempt) and
\* nothing has happened since.
HybridJustInvoked == hpc = "validate"

\* C4: after a crash with a live checkpoint for feature F at session s, the
\* restarted agent's first executor invocation for F is in session s.
C4_RestartResumesAtCheckpointSession ==
  (HybridJustInvoked /\ invoked = 1 /\ resume.present /\ resume.feature_id = hcur) =>
     session_num = resume.session_num

\* C5: every executor invocation for (feature, session, attempt) is preceded
\* by a checkpoint write recording that feature, session and attempt.
C5_CheckpointBeforeInvocation ==
  HybridJustInvoked => checkpoint = create_checkpoint(hcur, session_num, attempt)

\* C8: once the state machine has reported failure for a feature, the
\* feature keeps passes = false and the executor is not invoked for it again
\* in that run.
C8_FailedFeatureNotRetried ==
  /\ \A f \in failedThisRun : hfeatures # <<>> => ~hfeatures[f].passes
  /\ HybridJustInvoked => hcur \notin failedThisRun

\* C9: after three consecutive failed feature executions the run halts at
\* once with reason stall_detected: no further executor invocation occurs.
C9_StallHaltsRun ==
  /\ HybridJustInvoked => hfails < 3
  /\ (hfails = 3 /\ hpc = "done") => hsignal = [written |-> TRUE, reason |-> "stall_detected"]

\* C10: every run of the top-level loop terminates, having written a
\* completion signal whose reason is success, stall_detected or
\* max_iterations_reached.  (A run that a missing SDK aborts is not counted
\* against the claim here: what is asked is that a run whose executor and
\* validator answer comes to its end.)
C10_RunTerminatesWithSignal ==
  <>(\/ hpc = "raised"
     \/ /\ hpc = "done"
        /\ hsignal.written
        /\ hsignal.reason \in {"success", "stall_detected", "max_iterations_reached"})


\* C23: a failure of a checkpoint write or of a feature-store write is
\* absorbed: the run loop never ends by propagating the fault of a write.
C23_WriteFailureAbsorbed == ~(hpc = "raised" /\ hwrite_failed)

RECURSIVE SumCalls(_, _)
\* Executor calls of the running execute_feature in the sessions 0..s.
SumCalls(calls, s) == IF s < 0 THEN 0 ELSE calls[s] + SumCalls(calls, s - 1)

\* execute_feature has returned failure and run() is about to record it.
ReturnedFailure == hpc = "update" /\ ~ef_success

\* C25: execute_feature always terminates; it invokes the executor at most
\* max_inner_loops times within one outer session and at most
\* max_outer_sessions x max_inner_loops times in all, and it returns failure
\* only after max_outer_sessions sessions have been used.
C25_ExecuteFeatureBounded ==
  /\ [](/\ \A s \in OuterSessions : ef_calls[s] <= MaxInnerLoops
        /\ SumCalls(ef_calls, MaxOuterSessions - 1) <= MaxOuterSessions * MaxInnerLoops
        /\ ReturnedFailure => \A s \in OuterSessions : ef_calls[s] >= 1)
  /\ (hpc = "exec") ~> (hpc \in {"update", "raised"})

\* C25 witness: a failure returned after every attempt of every session.
C25_Witness ==
  /\ ReturnedFailure
  /\ SumCalls(ef_calls, MaxOuterSessions - 1) = MaxOuterSessions * MaxInnerLoops

\* The validation of (session_num, attempt) has failed and execute_feature
\* is at the choice that follows it.
FailedValidationDecided == hpc = "decide" /\ ~hvalidation.success

\* C26: after a failed validation in session s at attempt a the next executor
\* call is in the same session s at attempt a + 1 exactly when the validation
\* is flagged can_self_heal and a + 1 < max_inner_loops; otherwise the machine
\* leaves session s for the next outer session (or returns failure after the
\* last one), and a self-heal retry never advances the session counter.
C26_SelfHealStaysInSession ==
  [][FailedValidationDecided =>
       IF hvalidation.can_self_heal /\ attempt + 1 < MaxInnerLoops
       THEN hpc' = "exec" /\ session_num' = session_num /\ attempt' = attempt + 1
       ELSE \/ hpc' = "exec" /\ session_num' = session_num + 1 /\ attempt' = 0
            \/ ReturnedFailure' /\ session_num = MaxOuterSessions - 1]_vars

\* C26 witness: a self-heal retry under way in a session entered after an
\* earlier session was left.
C26_Witness == hpc = "exec" /\ session_num = MaxOuterSessions - 1 /\ attempt = MaxInnerLoops - 1

\* execute_feature has returned success and run() is about to record it.
ReturnedSuccess == hpc = "update" /\ ef_success

\* C27: the checkpoint of a feature is overwritten at each attempt with that
\* attempt's session and attempt numbers, and when the state machine returns
\* success for the feature no checkpoint for it remains in the store.
C27_CheckpointPerAttemptClearedOnSuccess ==
  /\ hpc = "decide" => checkpoint = create_checkpoint(hcur, session_num, attempt)
  /\ ReturnedSuccess => checkpoint = NoCheckpoint
  /\ (hfeatures # <<>> /\ checkpoint.present /\ hpc \in {"next", "done"}) =>
        ~hfeatures[checkpoint.feature_id].passes

\* C27 witness: success returned at a second attempt, after the checkpoint
\* of the first attempt was overwritten.
C27_Witness == ReturnedSuccess /\ attempt > 0 /\ checkpoint = NoCheckpoint

\* C29: a crash at any moment, a checkpoint write included, leaves the
\* checkpoint store empty or holding one complete checkpoint that load can
\* read: a killed process never leaves a partly written checkpoint file.
C29_CrashLeavesReadableCheckpoint == (hpc = "stopped" /\ crashes > 0) => ~hpartial

C37_SuccessOnlyAfterExecutorSuccess == ReturnedSuccess => result_success
\* ------------------------------------------------------------------------
\* What AutonomousAgent.run does where HybridLoopAgent.run does not
\* ------------------------------------------------------------------------
\* AutonomousAgent: once three sessions in a row have failed the run is over
\* and the completion signal says stall_detected.
AutoStallHalts ==
  afails = 3 => (apc = "done" /\ asignal = [written |-> TRUE, reason |-> "stall_detected"])

\* AutonomousAgent: a run writes at most one completion signal.
AutoOneSignal == asignals <= 1

\* AutonomousAgent: a run that is not killed comes to its end with a
\* completion signal carrying one of the three reasons.
AutoRunTerminatesWithSignal ==
  <>(/\ apc = "done"
     /\ asignal.written
     /\ asignal.reason \in {"success", "stall_detected", "max_iterations_reached"})

\* ------------------------------------------------------------------------
\* Claims about the parallel coordinator
\* ------------------------------------------------------------------------
\* The features of the level whose isolation branch exists.
BranchMade == {f \in DOMAIN branch_from : branch_from[f] # NoBranch}

\* C11: levels execute strictly one after another: workers of level N+1
\* exist only once merge_level_results of level N has returned, and every
\* isolation branch of level N+1 starts from a history that holds the merged
\* changes of the features of level N it depends on.
C11_LevelsStrictlySerial ==
  lvl > 1 =>
     /\ workers # <<>> => mpc \in {"wait", "start", "merge", "done"}
     /\ epc \in {"create", "gather", "done"} =>
          \A f \in BranchMade : prereqs \subseteq Range(branch_base[f])

\* The workers of the level that are executing right now.
RunningWorkers == {i \in 1..Len(workers) : wpc[i] = "running"}

\* C12: at every moment the number of workers executing is at most
\* max_parallel_workers, however many features the level holds.
C12_RunningWorkersBounded ==
  Cardinality(RunningWorkers) <= MaxParallelWorkers

\* C13: the merges into the target branch are strictly one after another:
\* a merge attempt, and on a conflict its abort, has come to its end before
\* the next merge attempt begins.
C13_MergesStrictlySequential == ~overlap

AllMergesClean ==
  /\ successful_features # <<>>
  /\ \A f \in Range(successful_features) : outcome[f] \in {"clean", "uptodate"}

C16_RollbackRequiresApproval ==
  rolled_back =>
     /\ mergeResult.done
     /\ ~mergeResult.success
     /\ mergeResult.requires_approval
     /\ mpc = "done"

\* C16 witness: a level was rolled back after a recorded conflict.
C16_Witness ==
  /\ rolled_back
  /\ merge_conflicts # <<>>
  /\ mpc = "done"

\* C17: a feature whose worker result is failure is never a merge candidate
\* and its branch is never merged into the target branch; a level with no
\* successful feature leaves the target branch unchanged.
C17_FailedFeatureNeverMerged ==
  mpc \in {"merge", "done"} =>
     /\ \A f \in DOMAIN results :
          ~results[f] => /\ f \notin Range(successful_features)
                         /\ outcome[f] = "none"
                         /\ MergeCommit(f) \notin Range(target)
     /\ (\A f \in DOMAIN results : ~results[f]) => target = preLevel

\* C17 witness: a level with a failed feature is through and the branch of
\* a successful one was merged.
C17_Witness ==
  /\ mpc = "done"
  /\ \E f, g \in DOMAIN results :
        ~results[f] /\ results[g] /\ MergeCommit(g) \in Range(target)


\* C30: when execute_level returns, every worker it created has been removed
\* from the active set and has exactly one terminal entry in the
\* completed-workers log, whether its feature succeeded, failed or raised.
C30_EveryWorkerCompleted ==
  epc = "done" =>
     \A i \in 1..Len(workers) :
        /\ workers[i].worker_id \notin DOMAIN active_workers
        /\ Cardinality({k \in 1..Len(completed_workers) :
                          completed_workers[k].feature_id = workers[i].feature_id}) = 1

\* C31: each feature of a level gets exactly one isolation branch and that
\* branch starts at base: no feature's branch is made from another feature's
\* branch or from a stale HEAD, however many features the level holds.
C31_BranchesStartAtBase ==
  \A i \in 1..Len(workers) : branch_from[workers[i].feature_id] = "base"

\* C40: create_worker never hands out an id that an active worker holds
\* (one created before, one left behind by a fault or one loaded from an
\* earlier run), so creating a worker adds a record and replaces none.
C40_CreateWorkerIdIsFresh ==
  [][CreateWorker =>
       /\ create_worker_id(active_workers) \notin DOMAIN active_workers
       /\ \A w \in DOMAIN active_workers : active_workers'[w] = active_workers[w]]_vars
\* ------------------------------------------------------------------------
\* Claims about the feature store on disk
\* ------------------------------------------------------------------------
\* C20: every write of the feature store is atomic: at no moment, and so
\* neither for a concurrent reader nor at a restart after a crash during a
\* save, does feature_list.json hold a partially written collection.
C20_FeatureStoreWrittenAtomically == ~apartial


\* new is old with at most the passes flag of record f changed: the same
\* records in the same places, every other field as it was.
OnlyPassesOf(old, new, f) ==
  /\ DOMAIN new = DOMAIN old
  /\ f \in DOMAIN old
  /\ \A i \in DOMAIN old :
       new[i] = IF i = f THEN [old[i] EXCEPT !.passes = new[i].passes] ELSE old[i]

\* C32: a run changes the feature store only by setting the passes flag of
\* the feature it has just executed: no feature is removed or added, every
\* other field and the passes flags of the other features stay as they were.
C32_StoreChangedOnlyInPasses ==
  [][/\ astore' # astore => (apc = "save_features" /\ OnlyPassesOf(astore, astore', acur))
     /\ hstore' # hstore => (hpc = "update" /\ OnlyPassesOf(hstore, hstore', hcur))]_vars

\* C32 witness: the store was just written for one feature while another
\* feature of it is still pending.
C32_Witness ==
  /\ apc = "save_checkpoint" /\ asuccess /\ astore[acur].passes
  /\ \E j \in DOMAIN astore : j # acur /\ ~astore[j].passes

\* ------------------------------------------------------------------------
\* Claims about execute_session_with_retry and the run of AutonomousAgent
\* ------------------------------------------------------------------------
\* C21: with credentials missing the executor is not retried: the feature's
\* execution ends as failed after a single attempt, with no retry within the
\* session and no further session spent on the feature.
C21_MissingCredentialsNotRetried ==
  ~credentials =>
     /\ apc = "exec" => aattempt = 0
     /\ ~aretried

\* C22: execute_session_with_retry calls the executor again only after a
\* call raised, makes at most MAX_RETRIES calls, ends at once with the
\* returned result when a call returns, and after the last raised call
\* reports failure.
C22_RetryOnlyAfterRaise ==
  /\ aattempt <= MAX_RETRIES - 1
  /\ (apc = "exec" /\ aattempt > 0) => alast = "error"
  /\ apc = "after" =>
        /\ alast \in {"success", "failure"} => asuccess = (alast = "success")
        /\ alast = "error" => (aattempt = MAX_RETRIES - 1 /\ ~asuccess)

\* C22 witness: the bound was used up by raised calls and the function
\* reported failure.
C22_Witness ==
  /\ apc = "after"
  /\ alast = "error"
  /\ aattempt = MAX_RETRIES - 1
  /\ ~asuccess

\* C39: when every feature of the store has passes = true at the end of
\* AutonomousAgent.run, the completion signal's reason is success, also when
\* the last pending feature was completed in the final allowed session;
\* max_iterations_reached is written only while some feature is pending.
C39_AllPassedSignalsSuccess ==
  (apc = "done" /\ areadable /\ \A i \in DOMAIN astore : astore[i].passes) =>
     asignal.reason = "success"

\* A step that starts a session: the first executor call of an iteration
\* of run().
SessionStarts == AutoExecuteSession /\ aattempt = 0

\* The process is the first one, or it found a checkpoint to resume from.
ResumedFromCheckpoint == acrashes = 0 \/ aresume.present

\* C38: over crashes and restarts of AutonomousAgent.run that resume from
\* the checkpoint, every session started has a number above that of every
\* session started before and at most max_iterations; so no number is
\* started twice and at most max_iterations sessions are started in all.
C38_SessionNumbersIncrease ==
  [][(SessionStarts /\ ResumedFromCheckpoint) =>
       (last_started < current_session /\ current_session <= MaxIterations)]_vars

\* What holds of the session numbers: the same, as long as no save of the
\* checkpoint has failed.
SessionNumbersIncreaseWhileSaved ==
  [][(SessionStarts /\ ResumedFromCheckpoint /\ ~save_failed) =>
       (last_started < current_session /\ current_session <= MaxIterations)]_vars

\* ------------------------------------------------------------------------
\* Claims about functions called on their own
\* ------------------------------------------------------------------------
\* Feature i of the list fs is the one to take next: pending, of maximal
\* priority among the pending ones, the earliest of those.
IsNextOf(fs, i) ==
  /\ i \in Pending(fs)
  /\ \A j \in Pending(fs) :
        \/ PriorityOf(fs[i]) > PriorityOf(fs[j])
        \/ PriorityOf(fs[i]) = PriorityOf(fs[j]) /\ i <= j

\* C33: in both agents get_next_feature returns no feature exactly when
\* every feature has passes = true; otherwise it returns a pending feature of
\* maximal priority (a missing priority counts as 0), the earliest in store
\* order among equal priorities; the two return the same on every input.
C33_GetNextFeatureAgree ==
  (arg \in PickInputs /\ ret # NoReturn) =>
     /\ ret[1].auto = ret[1].hybrid
     /\ ret[1].auto = 0 <=> \A i \in DOMAIN arg : arg[i].passes
     /\ ret[1].auto # 0 => IsNextOf(arg, ret[1].auto)
     /\ ret[1].hybrid # 0 => IsNextOf(arg, ret[1].hybrid)

\* C33 witness: both return the second feature, whose priority is positive,
\* past a pending first feature that carries no priority key.
C33_Witness ==
  /\ arg \in PickInputs /\ ret # NoReturn
  /\ Len(arg) >= 2 /\ ret[1].hybrid = 2 /\ ret[1].auto = 2
  /\ ~arg[1].passes /\ ~arg[1].has_priority /\ arg[2].priority > 0
\* ------------------------------------------------------------------------
\* Specifications
\* ------------------------------------------------------------------------
\* The graph builder, validator and planner on every bounded feature store.
GraphInit ==
  /\ GraphStart /\ MergeIdle /\ HybridIdle /\ WorkersIdle
  /\ CallIdle /\ AutoIdle /\ LevelIdle
SpecGraph == GraphInit /\ [][GraphNext]_vars

\* merge_level_results on every result vector of a level.
MergeInit ==
  /\ MergeStart /\ GraphIdle /\ HybridIdle /\ WorkersIdle
  /\ CallIdle /\ AutoIdle /\ LevelIdle
SpecMerge == MergeInit /\ [][MergeNext]_vars

\* merge_level_results with an integration check that can fail.
MergeCheckedInit ==
  /\ MergeCheckedStart /\ GraphIdle /\ HybridIdle /\ WorkersIdle /\ CallIdle
  /\ AutoIdle /\ LevelIdle
SpecMergeChecked == MergeCheckedInit /\ [][MergeNext]_vars

\* HybridLoopAgent.run with the process killed and started again at any point.
HybridInit ==
  /\ HybridStart /\ WorkersIdle /\ CallIdle /\ GraphIdle
  /\ MergeIdle /\ AutoIdle /\ LevelIdle
SpecHybrid == HybridInit /\ [][HybridNext]_vars

\* One run of HybridLoopAgent.run that is never killed and, being a running
\* process, always takes its next step.
SpecHybridLive == HybridInit /\ [][HybridRun]_vars /\ WF_vars(HybridRun)

\* The same unkilled run on a store whose records carry no "priority" key, so
\* that execute_feature is entered for the pending features in list order.
FeatureInit == HybridInit /\ \A i \in AgentFeatures : ~hstore[i].has_priority
SpecFeature == FeatureInit /\ [][HybridRun]_vars /\ WF_vars(HybridRun)


\* AutonomousAgent.run with the process killed and started again at any point.
\* Every write of sdk-checkpoint.json goes through.
AutoInit ==
  /\ AutoStart /\ checkpoint_faulty = FALSE /\ GraphIdle /\ MergeIdle /\ HybridIdle
  /\ WorkersIdle /\ CallIdle /\ LevelIdle
SpecAuto == AutoInit /\ [][AutoNext]_vars

\* One run of AutonomousAgent.run that is never killed and always takes its
\* next step.
SpecAutoLive == AutoInit /\ [][AutoRun]_vars /\ WF_vars(AutoRun)

\* AutonomousAgent.run killed and started again at any point, on a store
\* whose records carry no "priority" key; a write of sdk-checkpoint.json
\* may fail.
SessionsInit ==
  /\ AutoStart /\ checkpoint_faulty \in BOOLEAN
  /\ \A i \in AgentFeatures : ~astore[i].has_priority
  /\ GraphIdle /\ MergeIdle /\ HybridIdle /\ WorkersIdle /\ CallIdle /\ LevelIdle
SpecSessions == SessionsInit /\ [][AutoNext]_vars

\* One run of either agent on a feature store, not killed.
AgentsInit == AutoInit \/ FeatureInit
AgentsRun == AutoRun \/ HybridRun
SpecAgents == AgentsInit /\ [][AgentsRun]_vars

\* execute_level on every level of up to LevelSize features: the target
\* branch holds some history and is not touched.
LevelInit ==
  /\ LevelStart /\ GraphIdle /\ HybridIdle /\ WorkersIdle /\ CallIdle /\ AutoIdle
  /\ MergeIdle
SpecLevel == LevelInit /\ [][LevelNext]_vars

\* A run over the levels of a plan.
RunInit ==
  /\ RunStart /\ GraphIdle /\ HybridIdle /\ WorkersIdle
  /\ CallIdle /\ AutoIdle
SpecRun == RunInit /\ [][RunNext]_vars


\* The pipeline on every bounded feature store, then once more after a
\* feature was marked done.
ReplanInit ==
  /\ GraphStart /\ MergeIdle /\ HybridIdle /\ WorkersIdle /\ CallIdle
  /\ AutoIdle /\ LevelIdle
SpecReplan == ReplanInit /\ [][ReplanNext]_vars

\* The pipeline on every bounded feature store, then once more on the
\* unchanged store or on the same graph.
RerunInit ==
  /\ GraphStart /\ MergeIdle
  /\ HybridIdle /\ WorkersIdle /\ CallIdle /\ AutoIdle /\ LevelIdle
SpecRerun == RerunInit /\ [][RerunNext]_vars

\* The Workers of one level, each running execute_feature on its own feature
\* in the same project directory.
WorkersInit ==
  /\ WorkersStart /\ GraphIdle /\ MergeIdle
  /\ HybridIdle /\ AutoIdle /\ LevelIdle /\ CallIdle
SpecWorkers == WorkersInit /\ [][WorkersNext]_vars

\* get_next_feature of both agents on every bounded feature list.
PickInit ==
  /\ PickStart /\ GraphIdle /\ MergeIdle /\ HybridIdle
  /\ WorkersIdle /\ AutoIdle /\ LevelIdle
SpecPick == PickInit /\ [][PickNext]_vars

\* build_graph_from_feature_list on every bounded feature store whose
\* declared dependencies resolve and are acyclic, the descriptions falling
\* into the categories in every way.
ImplicitInit ==
  /\ GraphStart /\ AllResolve /\ ~HasCycle
  /\ MergeIdle /\ HybridIdle /\ WorkersIdle
  /\ CallIdle /\ AutoIdle /\ LevelIdle
SpecImplicit == ImplicitInit /\ [][ImplicitNext]_vars
====
